---- MODULE Spec2Model ----
(***************************************************************************)
(* MyExpenseTracker: the transaction repository, the planned-expense       *)
(* repository, the local-storage hook and the aggregation functions of     *)
(* src/App.tsx and its components, as state machines.                      *)
(*                                                                         *)
(* Representation of JavaScript values                                     *)
(*   - a date string "YYYY-MM-DD" is the tuple <<y, m, d>>; a string that  *)
(*     `new Date` cannot parse is BadDate; a missing or non-string date is *)
(*     NoDate;                                                             *)
(*   - a number is [kind |-> "num", v |-> n]; the value Infinity (what     *)
(*     JSON.parse makes of a literal such as 1e999) is kind "inf"; JSON's  *)
(*     null is kind "null"; anything that is not a number is kind "none";  *)
(*   - a missing or falsy string field is "".                              *)
(* uuidv4() returns an id that no record the application holds, and no     *)
(* record of the file being imported, bears.                               *)
(***************************************************************************)
EXTENDS Integers, Sequences, FiniteSets, TLC

VARIABLES
    shell,             \* which application shell is mounted: App.tsx or the earlier one
    transactions,      \* App.tsx: storedValue of useLocalStorage('transactions')
    lsTransactions,    \* localStorage item 'transactions' (its JSON text)
    lastOp,            \* the handler that ran last
    lastArg,           \* what it was given: the id deleted, "merged" when an
                       \* import met an id twice
    currentDate,       \* App.tsx: the Date whose month is displayed
    rendered,          \* the memoized values of the last render
    plannedExpenses,   \* App.tsx: storedValue of useLocalStorage('plannedExpenses')
    lsPlannedExpenses, \* localStorage item 'plannedExpenses'
    today,             \* the calendar date
    session,           \* "mounted": App is mounted and its effects have yet to
                       \* run; "running"; "crashed": an effect threw
    storedValue,       \* useLocalStorage: the state of the hook, per tab
    lsItem,            \* localStorage item of the hook's key
    pending,           \* the storage events a tab has yet to handle
    hookOp,            \* the operation of the hook that ran last
    upload,            \* the import in progress or the last one: its file and how far it got
    fileInput,         \* the value of the file input: "" or the file chosen
    alert,             \* the text of the last alert shown
    lastAutoDownload,  \* App.tsx: storedValue of useLocalStorage('lastAutoDownload')
    lsLastAutoDownload, \* localStorage item 'lastAutoDownload'
    closure,           \* what the timer callback armed at mount closes over
    check,             \* the auto-export check: armed, or how its last run ended
    exports,           \* the documents the auto-export check has produced
    zone,              \* the time zone of the browser
    notificationPermissionStatus, \* App.tsx: the state of that name
    notifications,     \* the notifications the last run of the reminder effect showed
    reminderRun        \* the last run of the reminder effect: its dependencies and
                       \* its calls of setPlannedExpenses

vars ==
    <<shell, transactions, lsTransactions, lastOp, lastArg, currentDate, rendered,
      plannedExpenses, lsPlannedExpenses, today, session,
      storedValue, lsItem, pending, hookOp,
      upload, fileInput, alert,
      lastAutoDownload, lsLastAutoDownload, closure, check, exports, zone,
      notificationPermissionStatus, notifications, reminderRun>>

repository == <<shell, transactions, lsTransactions, lastOp, lastArg>>
view == <<currentDate, rendered>>
plans == <<plannedExpenses, lsPlannedExpenses, today, session>>
store == <<storedValue, lsItem, pending, hookOp>>
importFlow == <<upload, fileInput, alert>>
scheduler == <<lastAutoDownload, lsLastAutoDownload, closure, check, exports, zone>>
reminders == <<notificationPermissionStatus, notifications, reminderRun>>

\* the state the handlers of the transaction repository, of the view, of the
\* planned-expense repository and of the hook leave alone
outsideRepository == <<view, plans, store, importFlow, scheduler, reminders>>
outsideView == <<repository, plans, store, importFlow, scheduler, reminders>>
outsidePlans == <<repository, view, store, importFlow, scheduler, reminders>>
outsideStore == <<repository, view, plans, importFlow, scheduler, reminders>>

----------------------------------------------------------------------------
(* Bounds of the model *)

MaxTx == 2

----------------------------------------------------------------------------
(* types.ts and constants.ts *)

INCOME == "income"
EXPENSE == "expense"

EXPENSE_CATEGORIES ==
    <<"Food", "Transportation", "Housing", "Utilities", "Entertainment",
      "Healthcare", "Shopping", "Other">>

INCOME_CATEGORIES == <<"Salary", "Freelance", "Investments", "Gifts", "Other">>

ALL_CATEGORIES == EXPENSE_CATEGORIES \o INCOME_CATEGORIES

Includes(seq, x) == \E i \in 1..Len(seq) : seq[i] = x

----------------------------------------------------------------------------
(* JavaScript values *)

Num(n) == [kind |-> "num", v |-> n]
Infinity == [kind |-> "inf", v |-> 1]
Null == [kind |-> "null", v |-> 0]
NotANumber == [kind |-> "none", v |-> 0]

\* typeof x === 'number'
IsNumber(x) == x.kind \in {"num", "inf"}

NoDate == <<>>
BadDate == <<0>>

\* t.date && typeof t.date === 'string'
IsNonEmptyString(d) == d # NoDate

\* whether new Date(d) is a valid date
IsValidDate(d) == Len(d) = 3

\* The ordering `new Date(d).getTime()` induces on valid dates
DateKey(d) == d[1] * 10000 + d[2] * 100 + d[3]

RemoveAt(seq, i) == SubSeq(seq, 1, i - 1) \o SubSeq(seq, i + 1, Len(seq))

Range(seq) == {seq[i] : i \in 1..Len(seq)}

Uuid(n) == "u" \o ToString(n)

\* uuidv4(): an id that none of the records in sight bears
FreshId(used) ==
    Uuid(CHOOSE n \in 1..(Cardinality(used) + 1) :
             /\ Uuid(n) \notin used
             /\ \A m \in 1..(n - 1) : Uuid(m) \in used)

Ids(list) == {list[i].id : i \in 1..Len(list)}

----------------------------------------------------------------------------
(* JSON.  A JSON text is modelled by its syntax tree: an array of objects  *)
(* whose "amount" member is a number literal (kind "num"), a literal too   *)
(* large for a double such as 1e999 (kind "big"), null, or absent / not a  *)
(* number (kind "none").                                                   *)

BigLiteral == [kind |-> "big", v |-> 1]

\* JSON.stringify of a number: a non-finite number is written as null
StringifyNumber(x) == IF x.kind = "inf" THEN Null ELSE x

\* JSON.parse of a number literal: an overflowing literal is Infinity
ParseNumber(x) == IF x.kind = "big" THEN Infinity ELSE x

\* JSON.stringify(transactions)
JsonStringify(list) ==
    [i \in 1..Len(list) |-> [list[i] EXCEPT !.amount = StringifyNumber(@)]]

\* null as an element of an array
NullElement == [null |-> TRUE]

IsNull(x) == DOMAIN x = {"null"}

\* JSON.parse(text), for a text that is an array of objects and nulls
JsonParse(text) ==
    [i \in 1..Len(text) |->
        IF IsNull(text[i]) THEN text[i]
        ELSE [text[i] EXCEPT !.amount = ParseNumber(@)]]

\* localStorage: the item stored under a key, or no item
NoItem == [present |-> FALSE, text |-> <<>>]
Item(text) == [present |-> TRUE, text |-> text]

----------------------------------------------------------------------------
(* App.tsx addTransactions: sanitize, union, dedup by id, sort *)

\* App.tsx 256: the filter of the sanitize step
Accepts(t) == IsNumber(t.amount) /\ IsNonEmptyString(t.date)

\* App.tsx 257-266: the map of the sanitize step, for a record given id `id`
SanitizeOne(t, id) ==
    [id |-> id,
     type |-> IF t.type = INCOME THEN INCOME ELSE EXPENSE,
     category |-> IF t.category # "" /\ Includes(ALL_CATEGORIES, t.category)
                  THEN t.category
                  ELSE IF t.type = INCOME THEN INCOME_CATEGORIES[1]
                                          ELSE EXPENSE_CATEGORIES[1],
     amount |-> t.amount,
     description |-> IF t.description # "" THEN t.description
                     ELSE "Imported Transaction",
     date |-> t.date]

\* App.tsx 255-266: filter then map; `used` are the ids uuidv4() avoids.
\* Every accepted record without an id takes a fresh uuid.
RECURSIVE Sanitize(_, _)
Sanitize(newTransactions, used) ==
    IF newTransactions = <<>> THEN <<>>
    ELSE LET t == Head(newTransactions)
         IN  IF ~Accepts(t) THEN Sanitize(Tail(newTransactions), used)
             ELSE IF t.id # ""
                  THEN <<SanitizeOne(t, t.id)>> \o Sanitize(Tail(newTransactions), used)
                  ELSE <<SanitizeOne(t, FreshId(used))>>
                       \o Sanitize(Tail(newTransactions), used \cup {FreshId(used)})

\* new Map(pairs): Map.prototype.set keeps a key at the position of its first
\* insertion and overwrites its value
RECURSIVE MapSet(_, _)
MapSet(entries, pair) ==
    IF entries = <<>> THEN <<pair>>
    ELSE IF Head(entries)[1] = pair[1] THEN <<pair>> \o Tail(entries)
         ELSE <<Head(entries)>> \o MapSet(Tail(entries), pair)

RECURSIVE NewMap(_, _)
NewMap(entries, pairs) ==
    IF pairs = <<>> THEN entries
    ELSE NewMap(MapSet(entries, Head(pairs)), Tail(pairs))

\* Array.from(map.values())
MapValues(entries) == [i \in 1..Len(entries) |-> entries[i][2]]

NoDedup(combined) == combined

\* App.tsx 269: Array.from(new Map(combined.map(t => [t.id, t])).values())
UniqueById(combined) ==
    MapValues(NewMap(<<>>, [i \in 1..Len(combined) |-> <<combined[i].id, combined[i]>>]))

\* Array.prototype.sort with (a, b) => time(b) - time(a) on valid dates: a
\* stable sort, latest date first
InsertDesc(sorted, x) ==
    LET keep == {i \in 1..Len(sorted) : DateKey(sorted[i].date) >= DateKey(x.date)}
        k == Cardinality(keep)
    IN  SubSeq(sorted, 1, k) \o <<x>> \o SubSeq(sorted, k + 1, Len(sorted))

RECURSIVE StableSortDesc(_, _)
StableSortDesc(sorted, rest) ==
    IF rest = <<>> THEN sorted
    ELSE StableSortDesc(InsertDesc(sorted, Head(rest)), Tail(rest))

Reorderings(seq) ==
    LET n == Len(seq)
        P == {p \in [1..n -> 1..n] : \A i, j \in 1..n : i # j => p[i] # p[j]}
    IN  {[i \in 1..n |-> seq[p[i]]] : p \in P}

\* App.tsx 270: unique.sort(...).  With an unparseable date the comparator
\* returns NaN, it is not a consistent comparator and the order of the result
\* is implementation-defined: any permutation.
SortByDateDesc(unique) ==
    IF \A i \in 1..Len(unique) : IsValidDate(unique[i].date)
    THEN {StableSortDesc(<<>>, unique)}
    ELSE Reorderings(unique)

\* App.tsx 253-272: the values the updater passed to setTransactions may return
AddTransactionsUpdater(prev, newTransactions) ==
    SortByDateDesc(UniqueById(
        prev \o Sanitize(newTransactions, Ids(prev) \cup Ids(newTransactions))))

DeleteKeepsTheMatch(prev, id) == SelectSeq(prev, LAMBDA t : t.id = id)

\* App.tsx 278-280: the updater of deleteTransaction
DeleteTransactionUpdater(prev, id) == SelectSeq(prev, LAMBDA t : t.id # id)

----------------------------------------------------------------------------
(* Inputs *)

D1 == <<2024, 1, 15>>
D2 == <<2024, 2, 1>>

\* TransactionForm.handleSubmit: what the form can submit.  The form offers
\* the categories of the chosen type; amount is parseFloat of a number input
\* that is required and has no minimum, so "-1" is submitted as -1.
FormCategories(type) ==
    IF type = EXPENSE THEN {EXPENSE_CATEGORIES[1]} ELSE {INCOME_CATEGORIES[1]}

FormTransactions ==
    {[id |-> "", type |-> EXPENSE, category |-> c, amount |-> Num(1),
      description |-> "d", date |-> D1] : c \in FormCategories(EXPENSE)}
    \cup {[id |-> "", type |-> INCOME, category |-> c, amount |-> Num(1),
            description |-> "d", date |-> D2] : c \in FormCategories(INCOME)}
    \cup {[id |-> "", type |-> EXPENSE, category |-> EXPENSE_CATEGORIES[1],
            amount |-> Num(-1), description |-> "d", date |-> D1]}

\* The objects of an uploaded JSON file.  Well-formed ones: with an id or
\* without, two ids with the same fields, one id with other fields, an amount
\* beyond the double range.
WellFormedRecords ==
    [id : {"", "a", "b"}, type : {EXPENSE}, category : {"Food"},
     amount : {Num(1)}, description : {"d"}, date : {D1}]
    \cup {[id |-> "a", type |-> INCOME, category |-> "Salary", amount |-> Num(1),
           description |-> "d", date |-> D2],
          [id |-> "b", type |-> EXPENSE, category |-> "Food", amount |-> BigLiteral,
           description |-> "d", date |-> D1]}

\* Malformed ones: no numeric amount, no date, no id with an unknown type and
\* category, no description with a date that does not parse, an expense under
\* a category of income
MalformedRecords ==
    {[id |-> "a", type |-> EXPENSE, category |-> "Salary", amount |-> Num(1),
      description |-> "d", date |-> D1],
     [id |-> "a", type |-> EXPENSE, category |-> "Food", amount |-> NotANumber,
      description |-> "d", date |-> D1],
     [id |-> "b", type |-> EXPENSE, category |-> "Food", amount |-> Num(1),
      description |-> "d", date |-> NoDate],
     [id |-> "", type |-> "", category |-> "Bogus", amount |-> Num(1),
      description |-> "d", date |-> D1],
     [id |-> "b", type |-> EXPENSE, category |-> "Food", amount |-> Num(1),
      description |-> "", date |-> BadDate]}

FileRecords == WellFormedRecords \cup MalformedRecords

\* the arrays a file holds: empty, any one record, two well-formed records
FileArrays ==
    {<<>>} \cup {<<r>> : r \in FileRecords}
    \cup {<<r, q>> : r, q \in WellFormedRecords}

\* An uploaded file: its media type and the shape of its text
JSON_MIME == "application/json"

Files ==
    [mime : {JSON_MIME}, shape : {"array", "backup"},
     transactions : FileArrays]
    \cup [mime : {JSON_MIME, "text/plain"}, shape : {"garbage", "other"},
          transactions : {<<>>}]

----------------------------------------------------------------------------
(* hooks/useLocalStorage.ts, as App.tsx uses it for 'transactions' *)

\* useLocalStorage 4-15: the initial state, read from localStorage
InitialValue(item) == IF item.present THEN JsonParse(item.text) ELSE <<>>

\* useLocalStorage 17-27, setValue when the write succeeds: the new state and
\* the item written
SetTransactions(valueToStore) ==
    /\ transactions' = valueToStore
    /\ lsTransactions' = Item(JsonStringify(valueToStore))

----------------------------------------------------------------------------
(* hooks/useLocalStorage.ts itself: the hook for one key in two tabs of    *)
(* the same origin, and what other contexts do to the item of that key.    *)
(* The key is 'lastAutoDownload', its values are strings.  The text of an  *)
(* item is a record: kind "json" for the JSON text of `value`, kind        *)
(* "garbage" for a text JSON.parse rejects, kind "null" for no item.       *)

MaxEvents == 1

Tabs == {"tab1", "tab2"}

KEY == "lastAutoDownload"
OTHER_KEY == "transactions"

\* App.tsx 22: the initialValue given to the hook
InitialString == ""

Values == {InitialString, "2024-02-29", "2024-03-31"}

\* JSON.stringify(value)
JsonText(value) == [kind |-> "json", value |-> value]
Garbage == [kind |-> "garbage", value |-> ""]
\* localStorage.getItem(key) of a missing key, event.newValue of a removal
NullText == [kind |-> "null", value |-> ""]

Texts == {JsonText(v) : v \in Values} \cup {Garbage, NullText}

\* useLocalStorage 8-14: item ? JSON.parse(item) : initialValue, and
\* initialValue when JSON.parse throws
StateFromItem(item) == IF item.kind = "json" THEN item.value ELSE InitialString

\* what setValue can be given: a value, or a function of the stored value
\* that returns or throws
SetValueArgs ==
    [kind : {"value"}, value : Values] \cup [kind : {"updater", "thrower"}, value : {""}]

\* useLocalStorage 19: value instanceof Function ? value(storedValue) : value
ValueToStore(arg, current) ==
    CASE arg.kind = "value" -> [thrown |-> FALSE, value |-> arg.value]
      [] arg.kind = "updater" ->
             [thrown |-> FALSE,
              value |-> IF current = InitialString THEN "2024-02-29" ELSE InitialString]
      [] OTHER -> [thrown |-> TRUE, value |-> current]

Rethrown(thrown) == thrown

\* useLocalStorage 18, 24-26: what the caller of setValue sees of an exception
\* thrown inside the try block
Caught(thrown) == "nothing"

ResyncedOrInitial(current, newValue) ==
    IF newValue.kind = "json" THEN newValue.value ELSE InitialString

\* useLocalStorage 34-38: the state after a storage event of this key;
\* when JSON.parse throws, the catch block logs and the state stays
ResyncedValue(current, newValue) ==
    IF newValue.kind = "null" THEN InitialString
    ELSE IF newValue.kind = "json" THEN newValue.value
    ELSE current

\* the storage event a write dispatches in the documents other than the writer
StorageEvent(key, newValue) == [key |-> key, newValue |-> newValue]

Dispatch(queues, receivers, event) ==
    [tab \in Tabs |-> IF tab \in receivers THEN Append(queues[tab], event)
                      ELSE queues[tab]]

HasRoom(receivers) == \A tab \in receivers : Len(pending[tab]) < MaxEvents

MergedItem(item, text) == IF item.kind = "json" /\ item.value # "" THEN item ELSE text

\* useLocalStorage 22: localStorage.setItem(key, text) puts text in the place
\* of whatever the key held
SetItem(item, text) == text

HookOp(op, tab, outcome, value, seen) ==
    [op |-> op, tab |-> tab, outcome |-> outcome, value |-> value, seen |-> seen]

\* useLocalStorage 17-27 setValue, in one tab.  localStorage.setItem throws
\* when the quota is exceeded or storage is disabled.
SetValue ==
    \E tab \in Tabs, arg \in SetValueArgs, quotaLeft \in BOOLEAN :
        LET valueToStore == ValueToStore(arg, storedValue[tab])
            text == JsonText(valueToStore.value)
        IN  IF valueToStore.thrown
            THEN /\ UNCHANGED <<storedValue, lsItem, pending, outsideStore>>
                 /\ hookOp' = HookOp("set", tab, "updater threw", valueToStore.value,
                                     Caught("updater threw"))
            ELSE IF ~quotaLeft
            THEN /\ storedValue' = [storedValue EXCEPT ![tab] = valueToStore.value]
                 /\ UNCHANGED <<lsItem, pending, outsideStore>>
                 /\ hookOp' = HookOp("set", tab, "write failed", valueToStore.value,
                                     Caught("setItem threw"))
            ELSE /\ HasRoom(Tabs \ {tab})
                 /\ storedValue' = [storedValue EXCEPT ![tab] = valueToStore.value]
                 /\ lsItem' = SetItem(lsItem, text)
                 /\ pending' = IF SetItem(lsItem, text) # lsItem
                               THEN Dispatch(pending, Tabs \ {tab},
                                             StorageEvent(KEY, SetItem(lsItem, text)))
                               ELSE pending
                 /\ hookOp' = HookOp("set", tab, "stored", valueToStore.value,
                                     "nothing")
                 /\ UNCHANGED outsideStore

\* another context of the origin writes or removes an item
ExternalWrite ==
    \E key \in {KEY, OTHER_KEY}, text \in Texts :
        /\ HasRoom(Tabs)
        /\ IF key = KEY
           THEN /\ lsItem' = text
                /\ pending' = IF text # lsItem
                              THEN Dispatch(pending, Tabs, StorageEvent(KEY, text))
                              ELSE pending
           ELSE /\ UNCHANGED lsItem
                /\ pending' = Dispatch(pending, Tabs, StorageEvent(OTHER_KEY, text))
        /\ UNCHANGED <<storedValue, outsideStore>>
        /\ hookOp' = HookOp("external", "", key, "", "nothing")

\* useLocalStorage 32-40 handleStorageChange, for the oldest event of a tab
HandleStorageChange ==
    \E tab \in Tabs :
        /\ pending[tab] # <<>>
        /\ LET event == Head(pending[tab])
           IN  /\ storedValue' =
                      IF event.key = KEY
                      THEN [storedValue EXCEPT ![tab] = ResyncedValue(@, event.newValue)]
                      ELSE storedValue
               /\ hookOp' = HookOp("storage", tab,
                                   IF event.key = KEY THEN event.newValue.kind
                                   ELSE "other key",
                                   event.newValue.value, "nothing")
        /\ pending' = [pending EXCEPT ![tab] = Tail(@)]
        /\ UNCHANGED <<lsItem, outsideStore>>

\* useLocalStorage 4-15: a tab is loaded again
ReloadTab ==
    \E tab \in Tabs :
        /\ storedValue' = [storedValue EXCEPT ![tab] = StateFromItem(lsItem)]
        /\ pending' = [pending EXCEPT ![tab] = <<>>]
        /\ hookOp' = HookOp("reload", tab, lsItem.kind, "", "nothing")
        /\ UNCHANGED <<lsItem, outsideStore>>

EmptyStore ==
    /\ storedValue = [tab \in Tabs |-> InitialString]
    /\ lsItem = NullText
    /\ pending = [tab \in Tabs |-> <<>>]
    /\ hookOp = HookOp("init", "", "", "", "nothing")

----------------------------------------------------------------------------
(* The handlers of App.tsx *)

\* TransactionForm.handleSubmit -> addTransaction -> addTransactions([t])
AddTransaction ==
    \E t \in FormTransactions :
        /\ Len(transactions) < MaxTx
        /\ \E v \in AddTransactionsUpdater(transactions, <<t>>) :
               SetTransactions(v)
        /\ lastOp' = "add"
        /\ lastArg' = ""
        /\ UNCHANGED <<shell, outsideRepository>>

\* the transaction list's delete button -> deleteTransaction(id)
DeleteTransaction ==
    \E i \in 1..Len(transactions) :
        LET id == transactions[i].id
        IN  /\ SetTransactions(DeleteTransactionUpdater(transactions, id))
            /\ lastOp' = "delete"
            /\ lastArg' = id
            /\ UNCHANGED <<shell, outsideRepository>>

\* TransactionList.tsx 364-374 handleDownloadJson: the text of the file
\* downloaded (nothing is downloaded for an empty list)
ExportJson(allTransactions) == JsonStringify(allTransactions)

\* App.tsx 331-386 handleFileChange with its reader.onload: the records the
\* file gives addTransactions
TransactionsToImport(file) ==
    IF file.shape \in {"array", "backup"} THEN JsonParse(file.transactions)
    ELSE <<>>

HandleFileChange ==
    \E file \in Files :
        LET toImport == IF file.mime = JSON_MIME THEN TransactionsToImport(file)
                        ELSE <<>>
            sanitized == Sanitize(toImport, {})
        IN  /\ IF Len(toImport) > 0
               THEN \E v \in AddTransactionsUpdater(transactions, toImport) :
                        /\ Len(v) <= MaxTx
                        /\ SetTransactions(v)
                        /\ lastOp' = "import " \o file.shape
                        /\ lastArg' = IF Len(v) < Len(transactions) + Len(sanitized)
                                      THEN "merged" ELSE ""
               ELSE /\ UNCHANGED <<transactions, lsTransactions>>
                    /\ lastOp' = "import nothing"
                    /\ lastArg' = ""
            /\ UNCHANGED <<shell, outsideRepository>>

\* the page is loaded again: the state is read back from localStorage
Reload ==
    /\ lastOp # "reload"
    /\ transactions' = InitialValue(lsTransactions)
    /\ lastOp' = "reload"
    /\ lastArg' = ""
    /\ UNCHANGED <<lsTransactions, shell, outsideRepository>>

\* the memoized values before the first render
NotRendered == [done |-> FALSE]

\* new Date() at mount
Today == <<2024, 3, 15>>

EmptyRepository ==
    /\ transactions = <<>>
    /\ lsTransactions = NoItem
    /\ lastOp = "init"
    /\ lastArg = ""

FirstView ==
    /\ currentDate = Today
    /\ rendered = NotRendered

EmptyPlans ==
    /\ plannedExpenses = <<>>
    /\ lsPlannedExpenses = NoItem
    /\ today = Today

\* no file has been chosen and no alert shown
NoUpload ==
    /\ upload = [phase |-> "none", file |-> <<>>,
                 transactions |-> <<>>, plannedExpenses |-> <<>>]
    /\ fileInput = ""
    /\ alert = ""

\* no marker is stored and the auto-export check is not under observation
NoScheduler ==
    /\ lastAutoDownload = NoDate
    /\ lsLastAutoDownload = NoItem
    /\ closure = <<>>
    /\ check = [phase |-> "unobserved", onLine |-> TRUE]
    /\ exports = <<>>
    /\ zone = "UTC"

\* App.tsx 27: the permission is 'default' until it has been looked up; the
\* reminder effect has not run
NoReminders ==
    /\ notificationPermissionStatus = "default"
    /\ notifications = <<>>
    /\ reminderRun = [deps |-> <<>>, persists |-> 0]

Empty ==
    /\ EmptyRepository /\ FirstView /\ EmptyPlans /\ session = "running" /\ EmptyStore
    /\ NoUpload /\ NoScheduler /\ NoReminders

Init == shell = "App" /\ Empty

Next ==
    \/ AddTransaction
    \/ DeleteTransaction
    \/ HandleFileChange
    \/ Reload

Spec == Init /\ [][Next]_vars

----------------------------------------------------------------------------
(* The earlier application shell (src/unnamed/part_002): the same hook and *)
(* the same 'transactions' key, an addTransactions that gives every record *)
(* a fresh id and dedups on a composite key, and an import that takes an   *)
(* array only.                                                             *)

\* how a template literal writes a date string, a string and a number
DateText(d) ==
    IF d = NoDate THEN "undefined"
    ELSE IF d = BadDate THEN "not-a-date"
    ELSE ToString(d[1]) \o "-" \o ToString(d[2]) \o "-" \o ToString(d[3])

StringText(str) == IF str = "" THEN "undefined" ELSE str

NumberText(x) ==
    CASE x.kind = "num" -> ToString(x.v)
      [] x.kind = "inf" -> "Infinity"
      [] x.kind = "null" -> "null"
      [] OTHER -> "undefined"

\* part_002 25: `${t.date}-${t.description}-${t.amount}-${t.type}-${t.category}`
CompositeKey(t) ==
    DateText(t.date) \o "-" \o StringText(t.description) \o "-"
    \o NumberText(t.amount) \o "-" \o StringText(t.type) \o "-"
    \o StringText(t.category)

\* part_002 20: newTransactions.map(t => ({ ...t, id: uuidv4() }))
RECURSIVE LegacyWithIds(_, _)
LegacyWithIds(newTransactions, used) ==
    IF newTransactions = <<>> THEN <<>>
    ELSE <<[Head(newTransactions) EXCEPT !.id = FreshId(used)]>>
         \o LegacyWithIds(Tail(newTransactions), used \cup {FreshId(used)})

\* part_002 24-26
LegacyUnique(combined) ==
    MapValues(NewMap(<<>>, [i \in 1..Len(combined) |->
                               <<CompositeKey(combined[i]), combined[i]>>]))

\* part_002 18-30: the values the updater of addTransactions may return
LegacyAddTransactionsUpdater(prev, newTransactions) ==
    SortByDateDesc(LegacyUnique(
        prev \o LegacyWithIds(newTransactions, Ids(prev) \cup Ids(newTransactions))))

LegacyAddTransaction ==
    \E t \in FormTransactions :
        /\ Len(transactions) < MaxTx
        /\ \E v \in LegacyAddTransactionsUpdater(transactions, <<t>>) :
               /\ SetTransactions(v)
               /\ lastArg' = IF Len(v) = Len(transactions) THEN "merged" ELSE ""
        /\ lastOp' = "add"
        /\ UNCHANGED <<shell, outsideRepository>>

\* the files given to the earlier shell: what the application exports and
\* hand-made arrays of well-formed records
LegacyFiles ==
    {file \in Files : Range(file.transactions) \subseteq WellFormedRecords}

\* part_002 52-87 handleFileChange with its reader.onload
LegacyHandleFileChange ==
    \E file \in LegacyFiles :
        LET data == JsonParse(file.transactions)
            accepted == /\ file.mime = JSON_MIME
                        /\ file.shape = "array"
                        /\ (Len(data) > 0 => data[1].id # "")
        IN  IF accepted
            THEN /\ \E v \in LegacyAddTransactionsUpdater(transactions, data) :
                        /\ Len(v) <= MaxTx
                        /\ SetTransactions(v)
                        /\ lastArg' = IF Len(v) < Len(transactions) + Len(data)
                                      THEN "merged" ELSE ""
                 /\ lastOp' = "import array"
                 /\ UNCHANGED <<shell, outsideRepository>>
            ELSE /\ UNCHANGED <<transactions, lsTransactions>>
                 /\ lastOp' = "import nothing"
                 /\ lastArg' = ""
                 /\ UNCHANGED <<shell, outsideRepository>>

\* Either shell is the one deployed; both keep their state under the same key.
InitShells == shell \in {"App", "legacy"} /\ Empty

NextShells ==
    \/ shell = "App" /\ AddTransaction
    \/ shell = "App" /\ HandleFileChange
    \/ shell = "legacy" /\ LegacyAddTransaction
    \/ shell = "legacy" /\ LegacyHandleFileChange
    \/ DeleteTransaction
    \/ Reload

SpecShells == InitShells /\ [][NextShells]_vars

----------------------------------------------------------------------------
(* JavaScript arithmetic on the values an amount can hold.  Finite numbers *)
(* are integers and a quotient is kept as an exact fraction; Infinity and  *)
(* NaN behave as IEEE 754 has them.                                        *)

NaN == [kind |-> "nan", v |-> 0]

\* ToNumber: null is 0, undefined is NaN
ToNumber(x) ==
    CASE x.kind = "null" -> Num(0)
      [] x.kind = "none" -> NaN
      [] OTHER -> x

\* a + b
Plus(a, b) ==
    LET x == ToNumber(a)
        y == ToNumber(b)
    IN  IF x.kind = "nan" \/ y.kind = "nan" THEN NaN
        ELSE IF x.kind = "num" /\ y.kind = "num" THEN Num(x.v + y.v)
        ELSE IF x.kind = "inf" /\ y.kind = "inf" THEN (IF x.v = y.v THEN x ELSE NaN)
        ELSE IF x.kind = "inf" THEN x ELSE y

\* -a
Negate(a) ==
    LET x == ToNumber(a)
    IN  IF x.kind = "nan" THEN NaN ELSE [x EXCEPT !.v = -@]

\* a - b
Minus(a, b) == Plus(a, Negate(b))

\* a > 0
IsPositive(a) ==
    LET x == ToNumber(a)
    IN  x.kind \in {"num", "inf"} /\ x.v > 0

\* a < b, false when either is NaN
Below(a, b) ==
    LET x == ToNumber(a)
        y == ToNumber(b)
    IN  \/ x.kind = "num" /\ y.kind = "num" /\ x.v < y.v
        \/ x.kind = "num" /\ y.kind = "inf" /\ y.v > 0
        \/ x.kind = "inf" /\ y.kind = "num" /\ x.v < 0
        \/ x.kind = "inf" /\ y.kind = "inf" /\ x.v < y.v

\* !a
Falsy(a) == a.kind \in {"nan", "null", "none"} \/ (a.kind = "num" /\ a.v = 0)

\* a || 0
OrZero(a) == IF Falsy(a) THEN Num(0) ELSE a

\* (a / total) * 100 for total > 0: the fraction v / per when both are finite
Percent(a, total) ==
    LET x == ToNumber(a)
        t == ToNumber(total)
    IN  IF x.kind = "nan" \/ t.kind = "nan" THEN NaN
        ELSE IF x.kind = "num" /\ t.kind = "num"
             THEN [kind |-> "ratio", v |-> x.v * 100, per |-> t.v]
        ELSE IF x.kind = "inf" /\ t.kind = "inf" THEN NaN
        ELSE IF x.kind = "inf" THEN x
        ELSE Num(0)

----------------------------------------------------------------------------
(* Dates *)

\* new Date(year, month + 1, 0).getDate(), month counted from 1 here
DaysInMonth(y, m) ==
    IF m \in {4, 6, 9, 11} THEN 30
    ELSE IF m # 2 THEN 31
    ELSE IF (y % 4 = 0 /\ y % 100 # 0) \/ y % 400 = 0 THEN 29 ELSE 28

\* Date.prototype.setMonth(getMonth() + offset), |offset| <= 12: the month
\* wraps into the neighbouring year and a day the month lacks spills over
\* into the next month
SetMonth(date, offset) ==
    LET m0 == date[2] + offset
        y == IF m0 < 1 THEN date[1] - 1 ELSE IF m0 > 12 THEN date[1] + 1 ELSE date[1]
        m == IF m0 < 1 THEN m0 + 12 ELSE IF m0 > 12 THEN m0 - 12 ELSE m0
        dim == DaysInMonth(y, m)
    IN  IF date[3] <= dim THEN <<y, m, date[3]>>
        ELSE IF m = 12 THEN <<y + 1, 1, date[3] - dim>>
        ELSE <<y, m + 1, date[3] - dim>>

\* new Date(t.date + 'T00:00:00').getDate(); NaN, here 0, for an invalid date
DayOf(d) == IF IsValidDate(d) THEN d[3] ELSE 0

----------------------------------------------------------------------------
(* The memoized values of App.tsx and ExpenseChart.tsx *)

\* App.tsx 389-395
MonthlyTransactions(list, cd) ==
    SelectSeq(list, LAMBDA t : /\ IsValidDate(t.date)
                               /\ t.date[1] = cd[1]
                               /\ t.date[2] = cd[2])

\* App.tsx 412
FirstDayOfMonth(cd) == <<cd[1], cd[2], 1>>

OnOrBefore(d, firstDayOfMonth) ==
    IsValidDate(d) /\ DateKey(d) <= DateKey(firstDayOfMonth)

\* App.tsx 416-417: transactionDate < firstDayOfMonth, false for an invalid date
Before(d, firstDayOfMonth) ==
    IsValidDate(d) /\ DateKey(d) < DateKey(firstDayOfMonth)

\* App.tsx 419-425: the reduce
RECURSIVE BalanceOf(_, _)
BalanceOf(balance, list) ==
    IF list = <<>> THEN balance
    ELSE BalanceOf(IF Head(list).type = INCOME
                   THEN Plus(balance, Head(list).amount)
                   ELSE Minus(balance, Head(list).amount),
                   Tail(list))

\* App.tsx 411-426
OpeningBalance(list, cd) ==
    BalanceOf(Num(0), SelectSeq(list, LAMBDA t : Before(t.date, FirstDayOfMonth(cd))))

\* ExpenseChart.tsx 77
Expenses(list) == SelectSeq(list, LAMBDA t : t.type = EXPENSE)

\* ExpenseChart.tsx 79
RECURSIVE SumAmounts(_, _)
SumAmounts(sum, list) ==
    IF list = <<>> THEN sum
    ELSE SumAmounts(Plus(sum, Head(list).amount), Tail(list))

\* reading a key of an object or of a Map: undefined when it is not there
MapGet(entries, key) ==
    IF \E i \in 1..Len(entries) : entries[i][1] = key
    THEN entries[CHOOSE i \in 1..Len(entries) : entries[i][1] = key][2]
    ELSE NotANumber

\* ExpenseChart.tsx 82-86: the reduce into expenseByCategory
RECURSIVE ExpenseByCategory(_, _)
ExpenseByCategory(acc, list) ==
    IF list = <<>> THEN acc
    ELSE LET c == Head(list).category
         IN  ExpenseByCategory(
                 MapSet(acc, <<c, Plus(OrZero(MapGet(acc, c)), Head(list).amount)>>),
                 Tail(list))

\* ExpenseChart.tsx 92: sort((a, b) => Number(b.value) - Number(a.value)).
\* The comparator returns NaN when an entry is NaN or two are Infinity: the
\* order is then implementation-defined.
InsertByValue(sorted, x) ==
    LET keep == {i \in 1..Len(sorted) : ~Below(sorted[i].value, x.value)}
        k == Cardinality(keep)
    IN  SubSeq(sorted, 1, k) \o <<x>> \o SubSeq(sorted, k + 1, Len(sorted))

RECURSIVE StableSortByValue(_, _)
StableSortByValue(sorted, rest) ==
    IF rest = <<>> THEN sorted
    ELSE StableSortByValue(InsertByValue(sorted, Head(rest)), Tail(rest))

SortByValueDesc(data) ==
    IF /\ \A i \in 1..Len(data) : data[i].value.kind # "nan"
       /\ Cardinality({i \in 1..Len(data) : data[i].value.kind = "inf"}) <= 1
    THEN {StableSortByValue(<<>>, data)}
    ELSE Reorderings(data)

\* ExpenseChart.tsx 79-93: the values pieChartData may take
PieChartData(expenses) ==
    LET totalExpense == SumAmounts(Num(0), expenses)
        entries == ExpenseByCategory(<<>>, expenses)
    IN  IF IsPositive(totalExpense)
        THEN SortByValueDesc([i \in 1..Len(entries) |->
                 [name |-> entries[i][1],
                  value |-> entries[i][2],
                  percent |-> Percent(entries[i][2], totalExpense)]])
        ELSE {<<>>}

LastOfDay(byDay, t) == <<DayOf(t.date), t.amount>>

\* ExpenseChart.tsx 104: the entry expensesByDay.set writes for t
SumOfDay(byDay, t) ==
    <<DayOf(t.date), Plus(OrZero(MapGet(byDay, DayOf(t.date))), t.amount)>>

\* ExpenseChart.tsx 101-105
RECURSIVE ExpensesByDay(_, _)
ExpensesByDay(byDay, list) ==
    IF list = <<>> THEN byDay
    ELSE ExpensesByDay(MapSet(byDay, SumOfDay(byDay, Head(list))), Tail(list))

ZeroFilledLineChartData(expenses, cd) ==
    LET byDay == ExpensesByDay(<<>>, expenses)
    IN  [day \in 1..DaysInMonth(cd[1], cd[2]) |->
            [day |-> day, amount |-> OrZero(MapGet(byDay, day))]]

\* ExpenseChart.tsx 95-110
LineChartData(expenses, cd) ==
    IF Len(expenses) > 0
    THEN LET byDay == ExpensesByDay(<<>>, expenses)
         IN  [day \in 1..DaysInMonth(cd[1], cd[2]) |->
                 [day |-> day, amount |-> OrZero(MapGet(byDay, day))]]
    ELSE <<>>

\* App.tsx 397-409: the reduce of the monthly transactions into two sums
MonthlyTotals(monthly) ==
    [totalIncome |->
         SumAmounts(Num(0), SelectSeq(monthly, LAMBDA t : t.type = INCOME)),
     totalExpenses |->
         SumAmounts(Num(0), SelectSeq(monthly, LAMBDA t : t.type # INCOME))]

BalanceWithoutExpenses(openingBalance, totalIncome, totalExpenses) ==
    Plus(openingBalance, totalIncome)

\* Summary.tsx 37: openingBalance + totalIncome - totalExpenses
Balance(openingBalance, totalIncome, totalExpenses) ==
    Minus(Plus(openingBalance, totalIncome), totalExpenses)

\* what a render of App with Summary and ExpenseChart memoizes and shows
RenderedValues(list, cd) ==
    LET monthly == MonthlyTransactions(list, cd)
        totals == MonthlyTotals(monthly)
    IN  {[done |-> TRUE,
          monthlyTransactions |-> monthly,
          openingBalance |-> OpeningBalance(list, cd),
          totalIncome |-> totals.totalIncome,
          totalExpenses |-> totals.totalExpenses,
          balance |-> Balance(OpeningBalance(list, cd), totals.totalIncome,
                              totals.totalExpenses),
          expenseData |-> pie,
          dailySpendingData |-> LineChartData(Expenses(monthly), cd)] :
            pie \in PieChartData(Expenses(monthly))}

----------------------------------------------------------------------------
(* The view: App mounted on a history, rendered, and paged through months  *)

MaxHistory == 2

D3 == <<2024, 2, 29>>

\* the records of a history, as addTransactions leaves them
HistoryRecords ==
    [id : {""}, type : {INCOME}, category : {"Salary"}, amount : {Num(30), Num(50)},
     description : {"d"}, date : {D1, D2, D3}]
    \cup [id : {""}, type : {EXPENSE}, category : {"Food", "Housing"},
          amount : {Num(30), Num(50)}, description : {"d"}, date : {D1, D2, D3}]
    \cup {[id |-> "", type |-> EXPENSE, category |-> "Food", amount |-> Infinity,
           description |-> "d", date |-> D2],
          [id |-> "", type |-> EXPENSE, category |-> "Food", amount |-> Num(30),
           description |-> "d", date |-> BadDate]}

WithUuids(list) == [i \in 1..Len(list) |-> [list[i] EXCEPT !.id = Uuid(i)]]

\* the lists addTransactions can leave: in the order its sort gives
Histories ==
    {WithUuids(list) : list \in
        {l \in UNION {[1..k -> HistoryRecords] : k \in 0..MaxHistory} :
            l \in SortByDateDesc(l)}}

\* new Date() at mount
Todays == {<<2024, 1, 31>>, Today}

\* the months paged through
InWindow(date) ==
    /\ DateKey(<<2023, 12, 1>>) <= DateKey(date)
    /\ DateKey(date) <= DateKey(<<2024, 4, 30>>)

\* the first render
Render ==
    /\ rendered = NotRendered
    /\ rendered' \in RenderedValues(transactions, currentDate)
    /\ UNCHANGED <<currentDate, outsideView>>

\* App.tsx 319-325 changeMonth(offset), from the previous and next buttons,
\* and the render that follows
ChangeMonth ==
    \E offset \in {-1, 1} :
        LET newDate == SetMonth(currentDate, offset)
        IN  /\ rendered.done
            /\ InWindow(newDate)
            /\ currentDate' = newDate
            /\ rendered' \in RenderedValues(transactions, newDate)
            /\ UNCHANGED outsideView

InitView ==
    /\ shell = "App"
    /\ transactions \in Histories
    /\ lsTransactions = Item(JsonStringify(transactions))
    /\ lastOp = "init"
    /\ lastArg = ""
    /\ currentDate \in Todays
    /\ rendered = NotRendered
    /\ EmptyPlans
    /\ session = "running"
    /\ EmptyStore
    /\ NoUpload
    /\ NoScheduler
    /\ NoReminders

NextView == Render \/ ChangeMonth

SpecView == InitView /\ [][NextView]_vars

----------------------------------------------------------------------------
(* addTransaction on a collection read from the store *)

\* TransactionForm.handleSubmit -> addTransaction -> addTransactions([t]), once,
\* on a history of any length
AddTransactionToHistory ==
    \E t \in FormTransactions :
        /\ lastOp = "init"
        /\ \E v \in AddTransactionsUpdater(transactions, <<t>>) :
               SetTransactions(v)
        /\ lastOp' = "add"
        /\ lastArg' = ""
        /\ UNCHANGED <<shell, outsideRepository>>

NextOrder == AddTransactionToHistory

SpecOrder == InitView /\ [][NextOrder]_vars

----------------------------------------------------------------------------
(* The planned-expense repository of App.tsx.  A targetMonth is a record:  *)
(* kind "string" for a text "YYYY-MM" with its year y and month m, kind    *)
(* "text" for any other non-empty text, kind "number" for a JSON number,   *)
(* kind "undefined" when the member is missing or falsy.                   *)

MaxPlans == 2

YearMonth(y, m) == [kind |-> "string", y |-> y, m |-> m]
SomeText == [kind |-> "text", y |-> 0, m |-> 0]
SomeNumber == [kind |-> "number", y |-> 0, m |-> 0]
Undefined == [kind |-> "undefined", y |-> 0, m |-> 0]

\* if (p.targetMonth)
Truthy(x) == x.kind # "undefined"

\* App.tsx 237-241: whether the filter drops a plan with this targetMonth.
\* split('-').map(Number) of a text that is not "YYYY-MM" gives NaN, and every
\* comparison with NaN is false.
IsPast(targetMonth, now) ==
    /\ targetMonth.kind = "string"
    /\ \/ targetMonth.y < now[1]
       \/ targetMonth.y = now[1] /\ targetMonth.m - 1 < now[2] - 1

\* App.tsx 232-245: the filter of the sweep
Keeps(p, now) ==
    IF p.isRecurring THEN TRUE
    ELSE IF Truthy(p.targetMonth) THEN ~IsPast(p.targetMonth, now)
    ELSE TRUE

\* App.tsx 237: p.targetMonth.split is not a function when a truthy
\* targetMonth is not a string; the filter callback throws a TypeError
Throws(p) ==
    ~p.isRecurring /\ Truthy(p.targetMonth) /\ p.targetMonth.kind = "number"

\* App.tsx 286, 309: sort((a, b) => (a.reminderDateTime && b.reminderDateTime)
\* ? time(a) - time(b) : 0).  Plans without a reminder compare equal to every
\* plan; with plans of different reminder times beside them the comparator
\* is not consistent and the order of the result is implementation-defined.
HasReminder(p) == p.reminderDateTime # NoDate

InsertByReminder(sorted, x) ==
    LET keep == {i \in 1..Len(sorted) :
                     DateKey(sorted[i].reminderDateTime) <= DateKey(x.reminderDateTime)}
        k == Cardinality(keep)
    IN  SubSeq(sorted, 1, k) \o <<x>> \o SubSeq(sorted, k + 1, Len(sorted))

RECURSIVE StableSortByReminder(_, _)
StableSortByReminder(sorted, rest) ==
    IF rest = <<>> THEN sorted
    ELSE StableSortByReminder(InsertByReminder(sorted, Head(rest)), Tail(rest))

SortByReminder(list) ==
    LET timed == {i \in 1..Len(list) : HasReminder(list[i])}
    IN  IF Cardinality({list[i].reminderDateTime : i \in timed}) <= 1
        THEN {list}
        ELSE IF timed = 1..Len(list)
             THEN {StableSortByReminder(<<>>, list)}
             ELSE Reorderings(list)

\* App.tsx 282-288: the values the updater of addPlannedExpense may return
AddPlannedExpenseUpdater(prev, plan) ==
    SortByReminder(prev \o <<[plan EXCEPT !.id = FreshId(Ids(prev))]>>)

\* App.tsx 293: the filter of the batch sanitize step
AcceptsPlan(p) == p.title # "" /\ IsNumber(p.amount)

\* App.tsx 294-305: the map of the batch sanitize step
SanitizePlan(p, id) ==
    [id |-> id,
     title |-> p.title,
     description |-> p.description,
     amount |-> p.amount,
     category |-> IF p.category # "" /\ Includes(EXPENSE_CATEGORIES, p.category)
                  THEN p.category ELSE EXPENSE_CATEGORIES[1],
     isReminderSet |-> p.isReminderSet,
     reminderDateTime |-> p.reminderDateTime,
     notificationShown |-> p.notificationShown,
     isRecurring |-> p.isRecurring,
     targetMonth |-> p.targetMonth]

RECURSIVE SanitizePlans(_, _)
SanitizePlans(newPlans, used) ==
    IF newPlans = <<>> THEN <<>>
    ELSE LET p == Head(newPlans)
         IN  IF ~AcceptsPlan(p) THEN SanitizePlans(Tail(newPlans), used)
             ELSE IF p.id # ""
                  THEN <<SanitizePlan(p, p.id)>> \o SanitizePlans(Tail(newPlans), used)
                  ELSE <<SanitizePlan(p, FreshId(used))>>
                       \o SanitizePlans(Tail(newPlans), used \cup {FreshId(used)})

\* App.tsx 290-311: the values the updater of addPlannedExpensesBatch may return
AddPlannedExpensesBatchUpdater(prev, newPlans) ==
    SortByReminder(UniqueById(
        prev \o SanitizePlans(newPlans, Ids(prev) \cup Ids(newPlans))))

\* App.tsx 314-316: the updater of deletePlannedExpense
DeletePlannedExpenseUpdater(prev, id) == SelectSeq(prev, LAMBDA p : p.id # id)

\* setValue of useLocalStorage('plannedExpenses') when the write succeeds
SetPlannedExpenses(valueToStore) ==
    /\ plannedExpenses' = valueToStore
    /\ lsPlannedExpenses' = Item(JsonStringify(valueToStore))

----------------------------------------------------------------------------
(* Sessions of App over the planned expenses.  Notifications are not       *)
(* granted, so the reminder effect returns at once.                        *)

\* the dates on which the form is opened: it plans for the month after the
\* displayed one
Displayed == {<<2023, 11, 15>>, <<2024, 1, 15>>, <<2024, 1, 31>>, Today}

\* Summary.tsx 217-219
TargetMonthAfter(cd) ==
    LET nextMonthDate == SetMonth(cd, 1)
    IN  YearMonth(nextMonthDate[1], nextMonthDate[2])

\* Summary.tsx 209-234 handleSubmit: what the plan form submits
FormPlans ==
    {[id |-> "", title |-> "t", description |-> "", amount |-> Num(1),
      category |-> EXPENSE_CATEGORIES[1], isRecurring |-> r,
      targetMonth |-> IF ~r THEN TargetMonthAfter(cd) ELSE Undefined,
      isReminderSet |-> FALSE, reminderDateTime |-> NoDate,
      notificationShown |-> FALSE] : r \in BOOLEAN, cd \in Displayed}

\* a plan of an uploaded backup
FilePlan(id, title, isRecurring, targetMonth, reminderDateTime) ==
    [id |-> id, title |-> title, description |-> "", amount |-> Num(1),
     category |-> "Food", isRecurring |-> isRecurring, targetMonth |-> targetMonth,
     isReminderSet |-> reminderDateTime # NoDate, reminderDateTime |-> reminderDateTime,
     notificationShown |-> FALSE]

\* the plans of uploaded backups: recurring with a past targetMonth, one-time
\* of an earlier year, with a targetMonth that is a number, that is no month,
\* that is missing, and a plan without a title
PlanRecords ==
    {FilePlan("p", "t", TRUE, YearMonth(2024, 2), <<2024, 3, 20>>),
     FilePlan("q", "t", FALSE, YearMonth(2023, 12), <<2024, 3, 10>>),
     FilePlan("", "t", FALSE, SomeNumber, NoDate),
     FilePlan("q", "t", FALSE, SomeText, NoDate),
     FilePlan("", "t", FALSE, Undefined, NoDate),
     FilePlan("p", "", FALSE, YearMonth(2024, 4), NoDate)}

\* structured backups that hold planned expenses only
PlanFiles ==
    [mime : {JSON_MIME}, shape : {"backup"},
     plannedExpenses : {<<>>} \cup {<<r>> : r \in PlanRecords}]

\* the dates of the sessions
Clock == {Today, <<2024, 4, 1>>, <<2025, 1, 10>>}

\* NextMonthExpensePlanForm.handleSubmit -> addPlannedExpense
AddPlannedExpense ==
    \E plan \in FormPlans :
        /\ session = "running"
        /\ Len(plannedExpenses) < MaxPlans
        /\ \E v \in AddPlannedExpenseUpdater(plannedExpenses, plan) :
               SetPlannedExpenses(v)
        /\ UNCHANGED <<today, session, outsidePlans>>

\* the plan list's delete button -> deletePlannedExpense(id)
DeletePlannedExpense ==
    \E i \in 1..Len(plannedExpenses) :
        /\ session = "running"
        /\ SetPlannedExpenses(
               DeletePlannedExpenseUpdater(plannedExpenses, plannedExpenses[i].id))
        /\ UNCHANGED <<today, session, outsidePlans>>

\* App.tsx 331-386 handleFileChange with its reader.onload, for a backup of
\* planned expenses
HandleFileChangeOfPlans ==
    \E file \in PlanFiles :
        LET plansToImport == JsonParse(file.plannedExpenses)
        IN  /\ session = "running"
            /\ IF Len(plansToImport) > 0
               THEN \E v \in AddPlannedExpensesBatchUpdater(plannedExpenses,
                                                           plansToImport) :
                        /\ Len(v) <= MaxPlans
                        /\ SetPlannedExpenses(v)
               ELSE UNCHANGED <<plannedExpenses, lsPlannedExpenses>>
            /\ UNCHANGED <<today, session, outsidePlans>>

\* App.tsx 227-250: the effect that runs once after App is mounted
SweepExpired ==
    /\ session = "mounted"
    /\ IF \E i \in 1..Len(plannedExpenses) : Throws(plannedExpenses[i])
       THEN /\ session' = "crashed"
            /\ UNCHANGED <<plannedExpenses, lsPlannedExpenses>>
       ELSE LET plansToKeep == SelectSeq(plannedExpenses, LAMBDA p : Keeps(p, today))
            IN  /\ IF Len(plansToKeep) < Len(plannedExpenses)
                   THEN SetPlannedExpenses(plansToKeep)
                   ELSE UNCHANGED <<plannedExpenses, lsPlannedExpenses>>
                /\ session' = "running"
    /\ UNCHANGED <<today, outsidePlans>>

\* the page is closed and loaded again, the same day or later
NewSession ==
    \E now \in Clock :
        /\ session \in {"running", "crashed"}
        /\ DateKey(now) >= DateKey(today)
        /\ today' = now
        /\ plannedExpenses' = InitialValue(lsPlannedExpenses)
        /\ session' = "mounted"
        /\ UNCHANGED <<lsPlannedExpenses, outsidePlans>>

InitPlans ==
    /\ shell = "App"
    /\ EmptyRepository
    /\ FirstView
    /\ EmptyPlans
    /\ session = "mounted"
    /\ EmptyStore
    /\ NoUpload
    /\ NoScheduler
    /\ NoReminders

NextPlans ==
    \/ AddPlannedExpense
    \/ DeletePlannedExpense
    \/ HandleFileChangeOfPlans
    \/ SweepExpired
    \/ NewSession

SpecPlans == InitPlans /\ [][NextPlans]_vars

----------------------------------------------------------------------------
(* The reminder effect of App.tsx.  Its dependencies are plannedExpenses,  *)
(* notificationPermissionStatus and setPlannedExpenses; the last is a new  *)
(* function at every render of App (useLocalStorage 17), so the effect     *)
(* runs after every render.  Effects run before the next event is handled. *)
(* A reminderDateTime is modelled by its calendar date, `now` by `today`.  *)

\* what the effect depends on
ReminderDeps == <<plannedExpenses, notificationPermissionStatus>>

\* the effect has run for the current render
EffectsFlushed == reminderRun.deps = ReminderDeps

DueIgnoringShown(plan, now) ==
    /\ plan.isReminderSet
    /\ HasReminder(plan)
    /\ IsValidDate(plan.reminderDateTime)
    /\ DateKey(plan.reminderDateTime) <= DateKey(now)

\* App.tsx 210: plan.isReminderSet && plan.reminderDateTime &&
\* !plan.notificationShown && new Date(plan.reminderDateTime) <= now
IsDue(plan, now) ==
    /\ plan.isReminderSet
    /\ HasReminder(plan)
    /\ ~plan.notificationShown
    /\ IsValidDate(plan.reminderDateTime)
    /\ DateKey(plan.reminderDateTime) <= DateKey(now)

\* App.tsx 211-214: new Notification(plan.title, {body, icon}), and the plan
\* it is shown for
Notification(plan) ==
    [title |-> plan.title, body |-> "Category: " \o plan.category, plan |-> plan.id]

\* App.tsx 209-218: the map over plannedExpenses
UpdatedPlannedExpenses(list, now) ==
    [i \in 1..Len(list) |->
        IF IsDue(list[i], now) THEN [list[i] EXCEPT !.notificationShown = TRUE]
        ELSE list[i]]

\* the notifications the map shows on its way, in the order of the list
RECURSIVE NotificationsOf(_, _)
NotificationsOf(list, now) ==
    IF list = <<>> THEN <<>>
    ELSE (IF IsDue(Head(list), now) THEN <<Notification(Head(list))>> ELSE <<>>)
         \o NotificationsOf(Tail(list), now)

\* App.tsx 183-199: the permission is looked up after mount, and asked for
\* when it is 'default'; the user grants or denies it (a dismissed prompt
\* leaves it 'default')
CheckPermission ==
    \E permission \in {"granted", "denied"} :
        /\ notificationPermissionStatus = "default"
        /\ notificationPermissionStatus' = permission
        /\ UNCHANGED <<notifications, reminderRun, repository, view, plans, store,
                       importFlow, scheduler>>

\* App.tsx 202-224: the reminder effect, after a render that changed its
\* dependencies
ReminderEffect ==
    /\ ~EffectsFlushed
    /\ reminderRun' =
           [deps |-> ReminderDeps,
            persists |-> IF /\ notificationPermissionStatus = "granted"
                            /\ \E i \in 1..Len(plannedExpenses) :
                                   IsDue(plannedExpenses[i], today)
                         THEN 1 ELSE 0]
    /\ IF notificationPermissionStatus # "granted"
       THEN /\ notifications' = <<>>
            /\ UNCHANGED <<plannedExpenses, lsPlannedExpenses>>
       ELSE /\ notifications' = NotificationsOf(plannedExpenses, today)
            /\ IF \E i \in 1..Len(plannedExpenses) : IsDue(plannedExpenses[i], today)
               THEN SetPlannedExpenses(UpdatedPlannedExpenses(plannedExpenses, today))
               ELSE UNCHANGED <<plannedExpenses, lsPlannedExpenses>>
    /\ UNCHANGED <<notificationPermissionStatus, today, session, repository, view,
                   store, importFlow, scheduler>>

\* time passes and App renders again for another reason (the month is
\* changed, a transaction is added): setPlannedExpenses is a new function
RenderAgain ==
    \E now \in Clock :
        /\ EffectsFlushed
        /\ DateKey(now) >= DateKey(today)
        /\ today' = now
        /\ reminderRun' = [deps |-> <<>>, persists |-> 0]
        /\ UNCHANGED <<plannedExpenses, lsPlannedExpenses, session,
                       notificationPermissionStatus, notifications,
                       repository, view, store, importFlow, scheduler>>

\* the plans the store holds at mount: a reminder of a past day, of this day,
\* of a later day, one already shown, one switched off, and no reminder
StoredPlan(isReminderSet, reminderDateTime, notificationShown) ==
    [id |-> "", title |-> "t", description |-> "", amount |-> Num(1),
     category |-> "Food", isRecurring |-> TRUE, targetMonth |-> Undefined,
     isReminderSet |-> isReminderSet, reminderDateTime |-> reminderDateTime,
     notificationShown |-> notificationShown]

StoredPlans ==
    {StoredPlan(TRUE, <<2024, 3, 10>>, FALSE),
     StoredPlan(TRUE, Today, FALSE),
     StoredPlan(TRUE, <<2024, 3, 20>>, FALSE),
     StoredPlan(TRUE, <<2024, 3, 10>>, TRUE),
     StoredPlan(FALSE, <<2024, 3, 10>>, FALSE),
     StoredPlan(TRUE, NoDate, FALSE)}

StoredPlanLists ==
    {WithUuids(list) : list \in UNION {[1..k -> StoredPlans] : k \in 0..MaxPlans}}

InitReminders ==
    /\ shell = "App"
    /\ EmptyRepository
    /\ FirstView
    /\ plannedExpenses \in StoredPlanLists
    /\ lsPlannedExpenses = Item(JsonStringify(plannedExpenses))
    /\ today = Today
    /\ session = "running"
    /\ EmptyStore
    /\ NoUpload
    /\ NoScheduler
    /\ NoReminders

NextReminders ==
    \/ CheckPermission
    \/ ReminderEffect
    \/ RenderAgain
    \/ EffectsFlushed /\ DeletePlannedExpense

SpecReminders == InitReminders /\ [][NextReminders]_vars

----------------------------------------------------------------------------
(* addPlannedExpense and addPlannedExpensesBatch on a collection read from *)
(* the store                                                               *)

\* Summary.tsx 195-203, 229: a plan the form submits with a reminder, which
\* must lie in the future
TimedFormPlans ==
    {[plan EXCEPT !.isReminderSet = TRUE, !.reminderDateTime = at] :
        plan \in FormPlans, at \in {<<2024, 3, 16>>, <<2024, 3, 20>>}}

\* NextMonthExpensePlanForm.handleSubmit -> addPlannedExpense, once, on a
\* stored list of any length
AddPlannedExpenseToStored ==
    \E plan \in FormPlans \cup TimedFormPlans :
        /\ lastOp = "init"
        /\ HasReminder(plan) => DateKey(plan.reminderDateTime) > DateKey(today)
        /\ \E v \in AddPlannedExpenseUpdater(plannedExpenses, plan) :
               SetPlannedExpenses(v)
        /\ lastOp' = "add plan"
        /\ UNCHANGED <<shell, transactions, lsTransactions, lastArg, today, session,
                       view, store, importFlow, scheduler, reminders>>

\* handleFileChange -> addPlannedExpensesBatch, once, on a stored list of any
\* length
ImportPlansToStored ==
    \E file \in PlanFiles :
        LET plansToImport == JsonParse(file.plannedExpenses)
        IN  /\ lastOp = "init"
            /\ Len(plansToImport) > 0
            /\ \E v \in AddPlannedExpensesBatchUpdater(plannedExpenses, plansToImport) :
                   SetPlannedExpenses(v)
            /\ lastOp' = "import plans"
            /\ UNCHANGED <<shell, transactions, lsTransactions, lastArg, today, session,
                           view, store, importFlow, scheduler, reminders>>

NextPlanOrder == AddPlannedExpenseToStored \/ ImportPlansToStored

SpecPlanOrder == InitReminders /\ [][NextPlanOrder]_vars

----------------------------------------------------------------------------
(* The import of App.tsx step by step: handleFileChange takes the chosen   *)
(* file and starts a FileReader; reader.onload processes the text.  Both   *)
(* are closures of the render in which the file was chosen: the setters    *)
(* they reach apply an updater to the collections of that render.          *)

InvalidFileAlert == "Please upload a valid .json file."
CouldNotImportAlert ==
    "Could not import data. The file might be corrupted or in the wrong format."
ImportedAlert == "Backup data imported successfully!"
NoDataAlert == "No data found to import from file."

\* the arrays of transactions of the uploaded files: empty, one record, a
\* record beside a null, a record beside one without a numeric amount
UploadedTransactions ==
    {<<>>,
     <<[id |-> "a", type |-> EXPENSE, category |-> "Food", amount |-> Num(1),
        description |-> "d", date |-> D1]>>,
     <<[id |-> "b", type |-> EXPENSE, category |-> "Food", amount |-> Num(1),
        description |-> "d", date |-> D1], NullElement>>,
     <<[id |-> "a", type |-> EXPENSE, category |-> "Food", amount |-> NotANumber,
        description |-> "d", date |-> D1],
       [id |-> "", type |-> INCOME, category |-> "Salary", amount |-> Num(1),
        description |-> "d", date |-> D2]>>}

\* the arrays of planned expenses: empty, one plan, a null beside a plan, a
\* plan without a title beside a plan
UploadedPlans ==
    {<<>>,
     <<FilePlan("p", "t", TRUE, Undefined, NoDate)>>,
     <<NullElement, FilePlan("q", "t", TRUE, Undefined, NoDate)>>,
     <<FilePlan("p", "", TRUE, Undefined, NoDate),
       FilePlan("", "t", FALSE, YearMonth(2024, 4), NoDate)>>}

\* the files the user can choose
Uploads ==
    [mime : {JSON_MIME}, shape : {"array"},
     transactions : UploadedTransactions, plannedExpenses : {<<>>}]
    \cup [mime : {JSON_MIME}, shape : {"backup"},
          transactions : UploadedTransactions, plannedExpenses : UploadedPlans]
    \cup [mime : {JSON_MIME}, shape : {"garbage", "other"},
          transactions : {<<>>}, plannedExpenses : {<<>>}]
    \cup [mime : {"text/plain"}, shape : {"array"},
          transactions : {t \in UploadedTransactions : Len(t) = 1},
          plannedExpenses : {<<>>}]

\* App.tsx 336
IsJson(file) == file.mime = JSON_MIME

\* App.tsx 348: whether JSON.parse returns
Parses(file) == file.shape # "garbage"

AnyShape(file) == TRUE

\* App.tsx 354-363: an object with a transactions or a plannedExpenses member,
\* or an array; anything else throws
Recognized(file) == file.shape \in {"array", "backup"}

\* App.tsx 356
PlansToImport(file) ==
    IF file.shape = "backup" THEN JsonParse(file.plannedExpenses) ELSE <<>>

\* App.tsx 256, 293: the filter callback reads t.amount, p.title; of null
\* that is a TypeError, thrown inside the updater
UpdaterThrows(newRecords) == \E i \in 1..Len(newRecords) : IsNull(newRecords[i])

\* an import of `file` under way, by the closures of the render with these
\* collections
Attempt(file) ==
    [phase |-> "reading", file |-> file,
     transactions |-> transactions, plannedExpenses |-> plannedExpenses]

\* an import of `file` that is over
Ended(phase, file) ==
    [phase |-> phase, file |-> file, transactions |-> <<>>, plannedExpenses |-> <<>>]

\* App.tsx 331-341, 385: handleFileChange, for the file the user chose
SelectFile ==
    \E file \in Uploads :
        /\ upload.phase # "reading"
        /\ IF ~IsJson(file)
           THEN /\ alert' = InvalidFileAlert
                /\ fileInput' = ""
                /\ upload' = Ended("rejected", file)
           ELSE /\ fileInput' = "chosen"
                /\ upload' = Attempt(file)
                /\ UNCHANGED alert
        /\ UNCHANGED <<repository, view, plans, store, scheduler, reminders>>

\* App.tsx 342-384: reader.onload.  An updater that throws is caught by
\* setValue (useLocalStorage 18, 24-26), which then stores nothing.
ReaderOnload ==
    /\ upload.phase = "reading"
    /\ LET file == upload.file
           recognized == Parses(file) /\ Recognized(file)
           transactionsToImport == IF recognized THEN TransactionsToImport(file) ELSE <<>>
           plansToImport == IF recognized THEN PlansToImport(file) ELSE <<>>
       IN  /\ IF Len(transactionsToImport) > 0 /\ ~UpdaterThrows(transactionsToImport)
              THEN \E v \in AddTransactionsUpdater(upload.transactions,
                                                    transactionsToImport) :
                       Len(v) <= MaxTx /\ SetTransactions(v)
              ELSE UNCHANGED <<transactions, lsTransactions>>
           /\ IF Len(plansToImport) > 0 /\ ~UpdaterThrows(plansToImport)
              THEN \E v \in AddPlannedExpensesBatchUpdater(upload.plannedExpenses,
                                                            plansToImport) :
                       Len(v) <= MaxPlans /\ SetPlannedExpenses(v)
              ELSE UNCHANGED <<plannedExpenses, lsPlannedExpenses>>
           /\ alert' = IF ~recognized THEN CouldNotImportAlert
                       ELSE IF Len(transactionsToImport) > 0 \/ Len(plansToImport) > 0
                            THEN ImportedAlert
                            ELSE NoDataAlert
           /\ lastOp' = IF Len(transactionsToImport) > 0 THEN "import " \o file.shape
                        ELSE "import nothing"
           /\ lastArg' = IF UpdaterThrows(transactionsToImport)
                             \/ UpdaterThrows(plansToImport)
                         THEN "threw" ELSE ""
    /\ fileInput' = ""
    /\ upload' = Ended("loaded", upload.file)
    /\ UNCHANGED <<shell, view, today, session, store, scheduler, reminders>>

\* The read fails (the file was removed or cannot be read): the reader fires
\* its error event, for which App.tsx 341-385 registers no handler.
ReaderOnerror ==
    /\ upload.phase = "reading"
    /\ upload' = Ended("failed", upload.file)
    /\ UNCHANGED <<fileInput, alert, repository, view, plans, store, scheduler,
                   reminders>>

InitImport == shell = "App" /\ Empty

NextImport ==
    \/ SelectFile
    \/ ReaderOnload
    \/ ReaderOnerror
    \/ DeleteTransaction

SpecImport == InitImport /\ [][NextImport]_vars

----------------------------------------------------------------------------
(* The auto-export check of App.tsx: an effect that runs once after App is *)
(* mounted arms a timer of five seconds; its callback checkAndAutoDownload *)
(* closes over the transactions and the marker of the first render.        *)

\* the time zones of the browser and their offset from UTC in minutes
Zones == {"UTC", "Asia/Kolkata", "America/New_York"}

UtcOffset(z) ==
    CASE z = "Asia/Kolkata" -> 330
      [] z = "America/New_York" -> -300
      [] OTHER -> 0

\* the calendar day before d
PreviousDay(d) ==
    IF d[3] > 1 THEN <<d[1], d[2], d[3] - 1>>
    ELSE IF d[2] > 1 THEN <<d[1], d[2] - 1, DaysInMonth(d[1], d[2] - 1)>>
    ELSE <<d[1] - 1, 12, 31>>

\* App.tsx 144: new Date(today.getFullYear(), today.getMonth(), 0), local
\* midnight of the last day of the previous month
LastDayOfPreviousMonth(now) ==
    LET y == IF now[2] = 1 THEN now[1] - 1 ELSE now[1]
        m == IF now[2] = 1 THEN 12 ELSE now[2] - 1
    IN  <<y, m, DaysInMonth(y, m)>>

\* App.tsx 145: date.toISOString().split('T')[0] of a local midnight: the
\* date in UTC of that instant, the day before where local time is ahead
ToISODate(localMidnight, z) ==
    IF UtcOffset(z) > 0 THEN PreviousDay(localMidnight) ELSE localMidnight

\* useLocalStorage 4-15 for 'lastAutoDownload': the initial state
MarkerFromItem(item) == IF item.present THEN item.text ELSE NoDate

\* setValue of useLocalStorage('lastAutoDownload') when the write succeeds
SetLastAutoDownload(valueToStore) ==
    /\ lastAutoDownload' = valueToStore
    /\ lsLastAutoDownload' = Item(valueToStore)

NeverOffline(onLine) == FALSE

\* App.tsx 138: !navigator.onLine
Offline(onLine) == ~onLine

\* App.tsx 147: !lastAutoDownload || lastAutoDownload < lastDayOfPreviousMonthStr
Due(marker, lastDayStr) ==
    marker = NoDate \/ DateKey(marker) < DateKey(lastDayStr)

\* App.tsx 151-154
TransactionsForLastMonth(list, lastDay) ==
    SelectSeq(list, LAMBDA t : /\ IsValidDate(t.date)
                               /\ t.date[1] = lastDay[1]
                               /\ t.date[2] = lastDay[2])

\* App.tsx 159-165
Totals(list) ==
    [totalIncome |-> SumAmounts(Num(0), SelectSeq(list, LAMBDA t : t.type = INCOME)),
     totalExpenses |-> SumAmounts(Num(0), SelectSeq(list, LAMBDA t : t.type # INCOME))]

\* App.tsx 117-122: tx.amount.toLocaleString(...) of an amount that is null
\* is a TypeError
PdfThrows(transactionsToExport) ==
    \E i \in 1..Len(transactionsToExport) : transactionsToExport[i].amount.kind = "null"

\* App.tsx 30-134 generateTransactionPdf(list, income, expenses, period, null,
\* null): the document saved, and the month in which it was
Document(transactionsToExport, totals, period, now) ==
    [transactions |-> transactionsToExport,
     income |-> totals.totalIncome,
     expenses |-> totals.totalExpenses,
     balance |-> Minus(totals.totalIncome, totals.totalExpenses),
     period |-> <<period[1], period[2]>>,
     charts |-> FALSE,
     savedIn |-> <<now[1], now[2]>>]

\* what the callback closes over: the values of the render at mount
Closure == [transactions |-> transactions', lastAutoDownload |-> lastAutoDownload']

\* the check of this load of the page: armed, or how it ended and what
\* navigator.onLine was when it ran
Check(phase, onLine) == [phase |-> phase, onLine |-> onLine]

\* the page is loaded, the same day or later: the state is read from
\* localStorage and the effect of App.tsx 136-180 arms the timer
LoadPage ==
    \E now \in Clock :
        /\ DateKey(now) >= DateKey(today)
        /\ today' = now
        /\ transactions' = InitialValue(lsTransactions)
        /\ lastAutoDownload' = MarkerFromItem(lsLastAutoDownload)
        /\ closure' = Closure
        /\ check' = Check("armed", TRUE)
        /\ lastOp' = "reload"
        /\ lastArg' = ""
        /\ UNCHANGED <<shell, lsTransactions, lsLastAutoDownload, exports, zone,
                       plannedExpenses, lsPlannedExpenses, session,
                       view, store, importFlow, reminders>>

\* App.tsx 137-174 checkAndAutoDownload, when the timer fires
CheckAndAutoDownload ==
    \E onLine \in BOOLEAN :
        LET lastDayOfPreviousMonth == LastDayOfPreviousMonth(today)
            lastDayOfPreviousMonthStr == ToISODate(lastDayOfPreviousMonth, zone)
            transactionsForLastMonth ==
                TransactionsForLastMonth(closure.transactions, lastDayOfPreviousMonth)
        IN  /\ check.phase = "armed"
            /\ IF Offline(onLine)
               THEN /\ check' = Check("skipped offline", onLine)
                    /\ UNCHANGED <<lastAutoDownload, lsLastAutoDownload, exports>>
               ELSE IF ~Due(closure.lastAutoDownload, lastDayOfPreviousMonthStr)
               THEN /\ check' = Check("not due", onLine)
                    /\ UNCHANGED <<lastAutoDownload, lsLastAutoDownload, exports>>
               ELSE IF Len(transactionsForLastMonth) > 0
                       /\ PdfThrows(transactionsForLastMonth)
               THEN /\ check' = Check("threw", onLine)
                    /\ UNCHANGED <<lastAutoDownload, lsLastAutoDownload, exports>>
               ELSE /\ check' = Check("recorded", onLine)
                    /\ exports' =
                           IF Len(transactionsForLastMonth) > 0
                           THEN Append(exports,
                                       Document(transactionsForLastMonth,
                                                Totals(transactionsForLastMonth),
                                                lastDayOfPreviousMonth, today))
                           ELSE exports
                    /\ SetLastAutoDownload(lastDayOfPreviousMonthStr)
            /\ UNCHANGED <<closure, zone, repository, view, plans, store, importFlow,
                           reminders>>

\* the stored histories the first load finds: none, a transaction of
\* February 2024, one of January, and one of March whose amount was written
\* as null
StoredHistories ==
    {<<>>,
     <<[id |-> "f", type |-> EXPENSE, category |-> "Food", amount |-> Num(50),
        description |-> "d", date |-> D3]>>,
     <<[id |-> "j", type |-> INCOME, category |-> "Salary", amount |-> Num(30),
        description |-> "d", date |-> D1]>>,
     <<[id |-> "n", type |-> EXPENSE, category |-> "Food", amount |-> Null,
        description |-> "d", date |-> Today]>>}

InitAuto ==
    /\ shell = "App"
    /\ transactions \in StoredHistories
    /\ lsTransactions = Item(JsonStringify(transactions))
    /\ lastOp = "init"
    /\ lastArg = ""
    /\ FirstView
    /\ EmptyPlans
    /\ session = "running"
    /\ EmptyStore
    /\ NoUpload
    /\ lastAutoDownload = NoDate
    /\ lsLastAutoDownload = NoItem
    /\ closure = [transactions |-> transactions, lastAutoDownload |-> NoDate]
    /\ check = Check("armed", TRUE)
    /\ exports = <<>>
    /\ zone \in Zones
    /\ NoReminders

NextAuto ==
    \/ CheckAndAutoDownload
    \/ LoadPage
    \/ AddTransaction

SpecAuto == InitAuto /\ [][NextAuto]_vars

----------------------------------------------------------------------------
(* The hook in two tabs *)

InitStore == shell = "App" /\ Empty

NextStore ==
    \/ SetValue
    \/ ExternalWrite
    \/ HandleStorageChange
    \/ ReloadTab

SpecStore == InitStore /\ [][NextStore]_vars

\* Two tabs that mutate the key with writes that succeed and that may be
\* loaded again, and nothing else touching the item: every storage event is
\* the echo of a tab's write.
StoredWrite == SetValue /\ hookOp'.outcome = "stored"

NextTabs ==
    \/ StoredWrite
    \/ HandleStorageChange
    \/ ReloadTab

SpecTabs == InitStore /\ [][NextTabs]_vars

----------------------------------------------------------------------------
(* Properties *)

Imported == lastOp \in {"import array", "import backup"}

\* C1: starting from an empty collection, after any sequence of
\* addTransaction, import (array or backup, records with or without an id) and
\* deleteTransaction, no two transactions of the repository share an id.
C1_NoTwoShareAnId ==
    \A i, j \in 1..Len(transactions) :
        i # j => transactions[i].id # transactions[j].id

\* An import has just met an id a second time and the repository holds
\* several records.
C1_Witness == Imported /\ lastArg = "merged" /\ Len(transactions) >= 2

\* the fields the composite key is made of
Composite(t) == <<t.date, t.description, t.amount, t.type, t.category>>

NoTwoShareAComposite ==
    \A i, j \in 1..Len(transactions) :
        i # j => Composite(transactions[i]) # Composite(transactions[j])

\* C2, as stated: after an import of a top-level JSON array the repository
\* holds no two transactions with identical (date, description, amount, type,
\* category).  App.tsx dedups the array on id alone.
C2_Original == lastOp = "import array" => NoTwoShareAComposite

\* C2, amended: the composite-key guarantee is that of the earlier shell
\* (part_002): after every import of an array through its addTransactions,
\* whatever the repository held before, the repository holds no two
\* transactions with identical (date, description, amount, type, category).
C2_LegacyNoTwoShareAComposite ==
    shell = "legacy" /\ lastOp = "import array" => NoTwoShareAComposite

\* The earlier shell has just imported an array that repeated a record.
C2_Witness ==
    shell = "legacy" /\ lastOp = "import array" /\ lastArg = "merged" /\ Len(transactions) >= 2

ImportOfExport(target, text) ==
    AddTransactionsUpdater(target, JsonParse(text))

\* C5, as stated: for every repository content the application reaches,
\* exporting the full list to JSON and importing that file, into an empty
\* repository or back into the same one, gives a repository with the same set
\* of ids and the same field values per id.
C5_RoundTrip ==
    Len(transactions) > 0 =>
        \A target \in {<<>>, transactions} :
            \A result \in ImportOfExport(target, ExportJson(transactions)) :
                Range(result) = Range(transactions)

\* the round trip of a repository whose amounts are all finite numbers
C5_FiniteRoundTrip ==
    (Len(transactions) > 0
     /\ \A i \in 1..Len(transactions) : transactions[i].amount.kind = "num") =>
        \A target \in {<<>>, transactions} :
            \A result \in ImportOfExport(target, ExportJson(transactions)) :
                Range(result) = Range(transactions)

\* the sum of the amounts of list at the indices I
RECURSIVE SumAt(_, _)
SumAt(list, I) ==
    IF I = {} THEN Num(0)
    ELSE LET i == CHOOSE i \in I : TRUE
         IN  Plus(list[i].amount, SumAt(list, I \ {i}))

\* d is a day of a month before the month of cd
InAnEarlierMonth(d, cd) ==
    IsValidDate(d) /\ (d[1] < cd[1] \/ (d[1] = cd[1] /\ d[2] < cd[2]))

C3_Example ==
    <<[id |-> "u1", type |-> INCOME, category |-> "Salary", amount |-> Num(1000),
       description |-> "d", date |-> D1],
      [id |-> "u2", type |-> EXPENSE, category |-> "Food", amount |-> Num(200),
       description |-> "d", date |-> D2]>>

\* C3: for every transaction history and every reference month M,
\* openingBalance(M) is the sum of +amount over the income and -amount over
\* the expense transactions dated strictly before the first day of M, and of
\* nothing else; the history [2024-01-15 income 1000, 2024-02-01 expense 200]
\* gives 800 for March 2024.
C3_OpeningBalanceIsSignedSum ==
    /\ OpeningBalance(C3_Example, <<2024, 3, 1>>) = Num(800)
    /\ rendered.done =>
          LET earlier == {i \in 1..Len(transactions) :
                              InAnEarlierMonth(transactions[i].date, currentDate)}
              income == {i \in earlier : transactions[i].type = INCOME}
          IN  rendered.openingBalance =
                  Minus(SumAt(transactions, income),
                        SumAt(transactions, earlier \ income))

\* A month is displayed whose first day is the date of one transaction, with
\* another transaction before it.
C3_Witness ==
    /\ rendered.done
    /\ Len(transactions) = 2
    /\ transactions[1].date = FirstDayOfMonth(currentDate)
    /\ InAnEarlierMonth(transactions[2].date, currentDate)
    /\ rendered.openingBalance.v # 0

\* the sum of the expense-type monthly transactions of a day
ExpenseOfDay(monthly, day) ==
    SumAt(monthly, {i \in 1..Len(monthly) :
                       monthly[i].type = EXPENSE /\ DayOf(monthly[i].date) = day})

OneEntryPerDay ==
    /\ Len(rendered.dailySpendingData) = DaysInMonth(currentDate[1], currentDate[2])
    /\ \A day \in 1..Len(rendered.dailySpendingData) :
          /\ rendered.dailySpendingData[day].day = day
          /\ rendered.dailySpendingData[day].amount =
                 ExpenseOfDay(rendered.monthlyTransactions, day)

HasAnExpense ==
    \E i \in 1..Len(rendered.monthlyTransactions) :
        rendered.monthlyTransactions[i].type = EXPENSE

\* C7, as stated: for a reference month and its monthly transactions,
\* dailySeries holds exactly one entry per calendar day 1..daysInMonth in
\* ascending order, the amount being the sum of that day's expenses, 0 for a
\* day without any.
C7_Original == rendered.done => OneEntryPerDay

\* C7, amended: when the monthly transactions hold at least one expense-type
\* transaction, dailySeries holds exactly one entry per calendar day
\* 1..daysInMonth in ascending order, the amount being the sum of that day's
\* expenses, 0 for a day without any; when they hold none, dailySeries is
\* empty.
C7_OneEntryPerDayWhenAnExpense ==
    rendered.done =>
        IF HasAnExpense THEN OneEntryPerDay ELSE rendered.dailySpendingData = <<>>

\* February 2024 is displayed with two expenses on its first day.
C7_Witness ==
    /\ rendered.done
    /\ currentDate[2] = 2
    /\ Len(Expenses(rendered.monthlyTransactions)) = 2
    /\ Len(rendered.dailySpendingData) = 29
    /\ rendered.dailySpendingData[1].amount = Num(80)
    /\ rendered.dailySpendingData[2].amount = Num(0)

\* the total expense of the monthly transactions
MonthlyExpense ==
    SumAt(rendered.monthlyTransactions,
          {i \in 1..Len(rendered.monthlyTransactions) :
               rendered.monthlyTransactions[i].type = EXPENSE})

RECURSIVE SumOfPercents(_)
SumOfPercents(data) ==
    IF data = <<>> THEN 0 ELSE Head(data).percent.v + SumOfPercents(Tail(data))

\* the percentages are fractions of the total that sum to 100
PercentagesSumTo100 ==
    /\ \A i \in 1..Len(rendered.expenseData) :
          /\ rendered.expenseData[i].percent.kind = "ratio"
          /\ rendered.expenseData[i].percent.per = MonthlyExpense.v
    /\ SumOfPercents(rendered.expenseData) = 100 * MonthlyExpense.v

\* C8, as stated: whenever the total expense of the monthly transactions is
\* greater than 0, the percentages of the categoryBreakdown entries sum to
\* 100.
C8_PercentagesSumTo100 ==
    rendered.done /\ IsPositive(MonthlyExpense) => PercentagesSumTo100

\* the same for monthly transactions whose amounts are all finite
C8_FinitePercentagesSumTo100 ==
    (/\ rendered.done
     /\ IsPositive(MonthlyExpense)
     /\ \A i \in 1..Len(rendered.monthlyTransactions) :
           rendered.monthlyTransactions[i].amount.kind = "num") =>
        PercentagesSumTo100

\* a one-time plan whose targetMonth is a month before that of `now`
Expired(p, now) ==
    /\ ~p.isRecurring
    /\ p.targetMonth.kind = "string"
    /\ p.targetMonth.y * 12 + p.targetMonth.m < now[1] * 12 + now[2]

\* the sweep has left exactly the plans that are not expired, as they were and
\* in their order, in memory and in the persistent store
SweptOfTheExpired ==
    /\ plannedExpenses' = SelectSeq(plannedExpenses, LAMBDA p : ~Expired(p, today))
    /\ InitialValue(lsPlannedExpenses') = plannedExpenses'

\* C6, as stated: after the expiry sweep has run at session load, every
\* non-recurring planned expense whose targetMonth is strictly before the
\* current calendar month is absent, and every recurring one, whatever its
\* targetMonth, and every non-recurring one of the current or a later month is
\* still present, unchanged and in the same relative order.
C6_SweepRemovesExactlyTheExpired ==
    [][session = "mounted" /\ session' # "mounted" => SweptOfTheExpired]_vars

\* the same for the session loads at which every targetMonth is a text
C6_SweepOfTextMonths ==
    [][(/\ session = "mounted"
        /\ session' # "mounted"
        /\ \A i \in 1..Len(plannedExpenses) :
              plannedExpenses[i].targetMonth.kind # "number") => SweptOfTheExpired]_vars

\* a call of setValue has just returned, with this outcome
SetReturned(outcome) == hookOp'.op = "set" /\ hookOp'.outcome = outcome

\* C9, as stated: set never propagates an exception to its caller, and when
\* the underlying storage write fails the call is a no-op: neither the
\* persisted value nor the in-memory value of the key changes.
C9_Original ==
    [][hookOp'.op = "set" =>
          /\ hookOp'.seen = "nothing"
          /\ SetReturned("write failed") =>
                 lsItem' = lsItem /\ storedValue' = storedValue]_vars

\* C9, amended: set never propagates an exception to its caller.  When the
\* storage write fails the persisted value does not change, but the
\* in-memory value of the calling tab is the new value all the same; when the
\* updater function throws, neither changes.
C9_FailedWriteKeepsTheNewValueInMemory ==
    [][hookOp'.op = "set" =>
          /\ hookOp'.seen = "nothing"
          /\ SetReturned("write failed") =>
                 /\ lsItem' = lsItem
                 /\ storedValue' = [storedValue EXCEPT ![hookOp'.tab] = hookOp'.value]
          /\ SetReturned("updater threw") =>
                 lsItem' = lsItem /\ storedValue' = storedValue]_vars

\* A write has just failed and left in memory a value the store does not hold.
C9_Witness ==
    /\ hookOp.op = "set"
    /\ hookOp.outcome = "write failed"
    /\ storedValue[hookOp.tab] = hookOp.value
    /\ lsItem # JsonText(hookOp.value)

\* a tab has just handled a storage event of the hook's key
Resynced == hookOp'.op = "storage" /\ hookOp'.outcome # "other key"

\* C10, as stated: when a change notification for the key arrives from
\* another tab, the local in-memory state becomes the parsed new value; if the
\* new value is absent or cannot be parsed, it becomes the default value.
C10_Original ==
    [][Resynced =>
          storedValue'[hookOp'.tab] =
              IF hookOp'.outcome = "json" THEN hookOp'.value ELSE InitialString]_vars

\* C10, amended: when a change notification for the key arrives from another
\* context, the local in-memory state becomes the parsed new value; if the new
\* value is absent it becomes the default value; if the new value cannot be
\* parsed the local state stays as it was.
C10_UnparseableLeavesTheState ==
    [][Resynced =>
          /\ storedValue'[hookOp'.tab] =
                 CASE hookOp'.outcome = "json" -> hookOp'.value
                   [] hookOp'.outcome = "null" -> InitialString
                   [] OTHER -> storedValue[hookOp'.tab]
          /\ \A tab \in Tabs \ {hookOp'.tab} : storedValue'[tab] = storedValue[tab]]_vars

\* A tab has just handled a notification whose new value does not parse and
\* holds a value that is not the default.
C10_Witness ==
    /\ hookOp.op = "storage"
    /\ hookOp.outcome = "garbage"
    /\ storedValue[hookOp.tab] # InitialString

\* C11: for every interleaving of successful writes from the tabs, the
\* persisted value of the key is the value passed by the most recent write,
\* replaced as a whole: a write that succeeds leaves the JSON text of its
\* value as the item, whatever the item was, and nothing a tab does besides a
\* successful write changes the item.
C11_LastWriteWins ==
    [][/\ SetReturned("stored") => lsItem' = JsonText(hookOp'.value)
       /\ (hookOp'.op \in {"set", "storage", "reload"} /\ ~SetReturned("stored")) =>
              lsItem' = lsItem]_vars

\* The second tab has just written over a different value the first tab wrote.
C11_Witness ==
    /\ hookOp.op = "set"
    /\ hookOp.outcome = "stored"
    /\ hookOp.tab = "tab2"
    /\ storedValue["tab1"] # InitialString
    /\ storedValue["tab1"] # hookOp.value
    /\ lsItem = JsonText(hookOp.value)

\* no tab has a storage event left to handle
Delivered == \A tab \in Tabs : pending[tab] = <<>>

\* C12: with two tabs mutating the key and change notifications delivered at
\* arbitrary times relative to the local mutations, once every pending
\* notification has been delivered each tab's in-memory state for the key
\* equals the persisted value.
C12_DeliveredTabsAgree ==
    Delivered => \A tab \in Tabs : storedValue[tab] = StateFromItem(lsItem)

\* a handler has just mutated the transaction collection
Mutated == lastOp \in {"add", "delete", "import array", "import backup"}

\* C13: in a single tab, after every completed mutation of the transaction
\* collection (add, import, delete) the value persisted under 'transactions'
\* equals the in-memory value verbatim: reading the item back gives the
\* collection as it is in memory.
C13_MirroredVerbatim ==
    Mutated => lsTransactions.present /\ InitialValue(lsTransactions) = transactions

\* the same for collections whose amounts are all finite
C13_FiniteMirroredVerbatim ==
    (Mutated /\ \A i \in 1..Len(transactions) : transactions[i].amount.kind = "num") =>
        lsTransactions.present /\ InitialValue(lsTransactions) = transactions

\* C20: after any sequence of form submissions and imports, every
\* transaction in the repository has a positive amount.
C20_AmountsArePositive ==
    \A i \in 1..Len(transactions) : IsPositive(transactions[i].amount)

\* reader.onload has just run
Loaded == upload.phase = "reading" /\ upload'.phase = "loaded"

\* the records of a batch that pass the field and type checks
WellFormedOf(batch) ==
    {i \in 1..Len(batch) : ~IsNull(batch[i]) /\ Accepts(batch[i])}

WellFormedPlansOf(batch) ==
    {i \in 1..Len(batch) : ~IsNull(batch[i]) /\ AcceptsPlan(batch[i])}

\* the collection holds the record r of a batch: under its id, or under a
\* new id when it has none
Added(r, list) ==
    IF r.id # "" THEN r.id \in Ids(list)
    ELSE \E j \in 1..Len(list) : list[j] = SanitizeOne(r, list[j].id)

AddedPlan(r, list) ==
    IF r.id # "" THEN r.id \in Ids(list)
    ELSE \E j \in 1..Len(list) : list[j] = SanitizePlan(r, list[j].id)

\* C14: during an import a record that fails its field and type checks is
\* dropped on its own: every well-formed record of the batch is in the
\* repository after the import, whichever malformed entries (no numeric
\* amount, no date, a null element, no title for a plan) stand beside it.
C14_WellFormedRecordsAreAdded ==
    [][Loaded /\ Parses(upload.file) /\ upload.file.shape \in {"array", "backup"} =>
          LET batch == TransactionsToImport(upload.file)
              plansOfBatch == PlansToImport(upload.file)
          IN  /\ \A i \in WellFormedOf(batch) : Added(batch[i], transactions')
              /\ \A i \in WellFormedPlansOf(plansOfBatch) :
                     AddedPlan(plansOfBatch[i], plannedExpenses')]_vars

\* the same for the batches without a null element
C14_WithoutNullElements ==
    [][(/\ Loaded /\ Parses(upload.file) /\ upload.file.shape \in {"array", "backup"}
        /\ ~UpdaterThrows(TransactionsToImport(upload.file))
        /\ ~UpdaterThrows(PlansToImport(upload.file))) =>
          LET batch == TransactionsToImport(upload.file)
              plansOfBatch == PlansToImport(upload.file)
          IN  /\ \A i \in WellFormedOf(batch) : Added(batch[i], transactions')
              /\ \A i \in WellFormedPlansOf(plansOfBatch) :
                     AddedPlan(plansOfBatch[i], plannedExpenses')]_vars

\* an import has just ended with the handler that took the file or with
\* reader.onload
ImportEnded == upload' # upload /\ upload'.phase \in {"rejected", "loaded"}

\* the media type is not application/json, the text is not JSON, or its value
\* is neither an array nor an object with transactions or plannedExpenses
Rejectable(file) == file.mime # JSON_MIME \/ file.shape \in {"garbage", "other"}

\* C15: an import is rejected with an alert and leaves the transaction
\* collection and the planned-expense collection, in memory and persisted,
\* unchanged whenever the file's media type is not application/json, the text
\* is not valid JSON, or the parsed value is neither an array nor an object
\* with a transactions or plannedExpenses field.
C15_RejectedImportChangesNothing ==
    [][ImportEnded /\ Rejectable(upload'.file) =>
          /\ alert' \in {InvalidFileAlert, CouldNotImportAlert}
          /\ UNCHANGED <<transactions, lsTransactions,
                         plannedExpenses, lsPlannedExpenses>>]_vars

\* A file whose JSON value is of neither shape has just been rejected by a
\* repository that holds transactions and planned expenses.
C15_Witness ==
    /\ upload.phase = "loaded"
    /\ upload.file.shape = "other"
    /\ alert = CouldNotImportAlert
    /\ Len(transactions) >= 1
    /\ Len(plannedExpenses) >= 1

\* C16: every import attempt that starts with a selected file ends with the
\* file input reset to empty, whatever the outcome: wrong media type, file
\* read failure, parse error, invalid shape, nothing found, or success.
C16_EndedImportResetsTheInput ==
    upload.phase \in {"rejected", "loaded", "failed"} => fileInput = ""

\* the same for the attempts whose file is read
C16_ReadFileResetsTheInput ==
    upload.phase \in {"rejected", "loaded"} => fileInput = ""

\* checkAndAutoDownload has just run, with the browser online
CheckedOnline == check.phase = "armed" /\ check'.phase # "armed" /\ check'.onLine

\* the marker is absent or precedes the last day of the previous month
MarkerIsBehind ==
    \/ lastAutoDownload = NoDate
    \/ DateKey(lastAutoDownload) < DateKey(LastDayOfPreviousMonth(today))

\* C17: when the auto-export check runs online and is due, it records the
\* last day of the previous month as the marker, in memory and in the store,
\* whether or not a transaction was exported; a check made when the marker is
\* that of the month exports nothing and leaves the marker unchanged; no
\* calendar month sees two auto-exports.
C17_RecordsTheLastDayOfThePreviousMonth ==
    [][CheckedOnline =>
          /\ IF MarkerIsBehind
             THEN /\ lastAutoDownload' = LastDayOfPreviousMonth(today)
                  /\ lsLastAutoDownload' = Item(LastDayOfPreviousMonth(today))
             ELSE /\ exports' = exports
                  /\ UNCHANGED <<lastAutoDownload, lsLastAutoDownload>>
          /\ \A i \in 1..Len(exports) :
                 exports' # exports => exports[i].savedIn # <<today[1], today[2]>>]_vars

\* no calendar month sees two auto-exports
C17_AtMostOneExportPerMonth ==
    \A i, j \in 1..Len(exports) : i # j => exports[i].savedIn # exports[j].savedIn

\* C18: when the auto-export check fires while the browser reports no
\* connectivity nothing happens: no export is produced and the marker, the
\* transactions and the planned expenses are unchanged, in memory and in the
\* store; the next load of the page arms the check again, with the marker
\* the store holds.
C18_OfflineCheckChangesNothing ==
    [][/\ (check.phase = "armed" /\ check'.phase # "armed" /\ ~check'.onLine) =>
              UNCHANGED <<exports, lastAutoDownload, lsLastAutoDownload,
                          transactions, lsTransactions,
                          plannedExpenses, lsPlannedExpenses>>
       /\ (check.phase = "skipped offline" /\ check' # check) =>
              /\ check'.phase = "armed"
              /\ closure'.lastAutoDownload = MarkerFromItem(lsLastAutoDownload)
              /\ lsLastAutoDownload' = lsLastAutoDownload]_vars

\* The check has just been skipped offline while an export of the previous
\* month was due.
C18_Witness ==
    /\ check.phase = "skipped offline"
    /\ lastAutoDownload = NoDate
    /\ Len(TransactionsForLastMonth(closure.transactions,
                                    LastDayOfPreviousMonth(today))) > 0
    /\ exports = <<>>

\* C19: when the check fires online and the marker is absent or precedes the
\* last day of the previous month, a document without chart images is
\* exported if and only if the repository, as it stands when the check fires,
\* holds a transaction dated in the previous calendar month, and the exported
\* transactions and totals are those of that month in the repository at that
\* moment.
C19_ExportsThePreviousMonthAsItStands ==
    [][CheckedOnline /\ MarkerIsBehind =>
          LET lastMonth == MonthlyTransactions(transactions, LastDayOfPreviousMonth(today))
              income == {i \in 1..Len(lastMonth) : lastMonth[i].type = INCOME}
          IN  IF Len(lastMonth) = 0 THEN exports' = exports
              ELSE /\ Len(exports') = Len(exports) + 1
                   /\ SubSeq(exports', 1, Len(exports)) = exports
                   /\ LET document == exports'[Len(exports')]
                      IN  /\ document.transactions = lastMonth
                          /\ document.income = SumAt(lastMonth, income)
                          /\ document.expenses =
                                 SumAt(lastMonth, (1..Len(lastMonth)) \ income)
                          /\ ~document.charts]_vars

\* the values of a list of categories
CategorySet(categories) == {categories[i] : i \in 1..Len(categories)}

\* the two lists share no category and together are ALL_CATEGORIES
CategoriesArePartition ==
    /\ CategorySet(EXPENSE_CATEGORIES) \cap CategorySet(INCOME_CATEGORIES) = {}
    /\ CategorySet(EXPENSE_CATEGORIES) \cup CategorySet(INCOME_CATEGORIES)
           = CategorySet(ALL_CATEGORIES)

\* the category of t is one of the list of its type
CategoryMatchesType(t) ==
    IF t.type = INCOME THEN Includes(INCOME_CATEGORIES, t.category)
    ELSE t.type = EXPENSE /\ Includes(EXPENSE_CATEGORIES, t.category)

\* every transaction of the repository is under a category of its type
C21_EveryCategoryMatchesItsType ==
    \A i \in 1..Len(transactions) : CategoryMatchesType(transactions[i])

\* C21: the expense categories and the income categories are disjoint sets
\* whose union is ALL_CATEGORIES, and every transaction in the repository,
\* created by the form or by import, has a category of the list that matches
\* its type.
C21_CategoriesPartitionByType ==
    CategoriesArePartition /\ C21_EveryCategoryMatchesItsType

\* a plan bears a targetMonth exactly when it is not recurring
TargetMonthIffOneTime(p) == Truthy(p.targetMonth) <=> ~p.isRecurring

\* C22: every planned expense in the repository has a targetMonth if and only
\* if it is not recurring, after any sequence of plan form submissions, batch
\* imports, deletes and sweeps.
C22_TargetMonthIffNotRecurring ==
    \A i \in 1..Len(plannedExpenses) : TargetMonthIffOneTime(plannedExpenses[i])

\* the same for what the plan form submits
C22_FormPlansBearTheirMonth == \A plan \in FormPlans : TargetMonthIffOneTime(plan)

\* the reminder effect has just run
EffectRan == reminderRun' # reminderRun /\ reminderRun'.deps = ReminderDeps

\* the plans whose reminder is set, has come and has not been shown
DuePlans ==
    {i \in 1..Len(plannedExpenses) :
        LET plan == plannedExpenses[i]
        IN  /\ plan.isReminderSet
            /\ plan.reminderDateTime # NoDate
            /\ DateKey(plan.reminderDateTime) <= DateKey(today)
            /\ ~plan.notificationShown}

\* C23: when the reminder check runs with notification permission granted,
\* exactly the planned expenses with isReminderSet true, a reminderDateTime at
\* or before the current time and notificationShown false get
\* notificationShown set to true and one notification each; all due entries
\* are written in a single persist call, every other planned expense is left
\* unchanged, and no persist happens when nothing is due.
C23_DueRemindersFireOnce ==
    [][EffectRan /\ notificationPermissionStatus = "granted" =>
          /\ Len(plannedExpenses') = Len(plannedExpenses)
          /\ \A i \in DuePlans :
                 /\ plannedExpenses'[i] =
                        [plannedExpenses[i] EXCEPT !.notificationShown = TRUE]
                 /\ Cardinality({n \in 1..Len(notifications') :
                                    notifications'[n].plan = plannedExpenses[i].id}) = 1
          /\ \A i \in (1..Len(plannedExpenses)) \ DuePlans :
                 plannedExpenses'[i] = plannedExpenses[i]
          /\ Len(notifications') = Cardinality(DuePlans)
          /\ reminderRun'.persists = IF DuePlans = {} THEN 0 ELSE 1
          /\ lsPlannedExpenses' = IF DuePlans = {} THEN lsPlannedExpenses
                                  ELSE Item(JsonStringify(plannedExpenses'))]_vars

\* The check has just run with permission granted on a due reminder beside a
\* reminder that is not due: one notification, one persist call.
C23_Witness ==
    /\ notificationPermissionStatus = "granted"
    /\ reminderRun.persists = 1
    /\ Len(notifications) = 1
    /\ Len(plannedExpenses) = 2
    /\ \E i, j \in 1..2 :
           /\ plannedExpenses[i].notificationShown
           /\ notifications[1].plan = plannedExpenses[i].id
           /\ ~plannedExpenses[j].notificationShown
           /\ plannedExpenses[j].isReminderSet

\* the records with a date that parses stand latest first
LatestFirst(list) ==
    \A i, j \in 1..Len(list) :
        (i < j /\ IsValidDate(list[i].date) /\ IsValidDate(list[j].date)) =>
            DateKey(list[i].date) >= DateKey(list[j].date)

\* C24: after every addMany (single add from the form or batch import) the
\* whole transaction collection is ordered by date descending, for every set
\* of records the sanitize step accepts: no record stands before a record of
\* a later date.
C24_OrderedByDateDescending == lastOp = "add" => LatestFirst(transactions)

\* the same for the collections whose dates all parse
C24_ParseableDatesAreOrdered ==
    (lastOp = "add" /\ \A i \in 1..Len(transactions) : IsValidDate(transactions[i].date))
        => LatestFirst(transactions)

\* addPlannedExpense or addPlannedExpensesBatch has just run
PlansAdded == lastOp \in {"add plan", "import plans"}

\* the plans with a reminderDateTime stand earliest first
EarliestReminderFirst(list) ==
    \A i, j \in 1..Len(list) :
        (i < j /\ HasReminder(list[i]) /\ HasReminder(list[j])) =>
            DateKey(list[i].reminderDateTime) <= DateKey(list[j].reminderDateTime)

\* C25: after add(plan) or addManyBatch, the planned expenses that have a
\* reminderDateTime appear in ascending reminderDateTime order relative to
\* each other, for every mix of plans with and without a reminderDateTime and
\* every prior order of the collection.
C25_RemindersAscending == PlansAdded => EarliestReminderFirst(plannedExpenses)

\* the same for the collections in which every plan has a reminderDateTime
C25_AllTimedRemindersAscending ==
    (PlansAdded /\ \A i \in 1..Len(plannedExpenses) : HasReminder(plannedExpenses[i]))
        => EarliestReminderFirst(plannedExpenses)

\* one entry per calendar day of the displayed month, each with amount 0
FlatZeroSeries ==
    /\ Len(rendered.dailySpendingData) = DaysInMonth(currentDate[1], currentDate[2])
    /\ \A day \in 1..Len(rendered.dailySpendingData) :
          rendered.dailySpendingData[day] = [day |-> day, amount |-> Num(0)]

\* C26, as stated: for a reference month whose monthly transactions contain
\* zero expense-type transactions, categoryBreakdown is empty and dailySeries
\* is a flat zero series: one entry per calendar day of the month, each with
\* amount 0.
C26_Original ==
    (rendered.done /\ ~HasAnExpense) =>
        rendered.expenseData = <<>> /\ FlatZeroSeries

\* C26, amended: for a reference month whose monthly transactions contain
\* zero expense-type transactions, categoryBreakdown is empty and dailySeries
\* is empty too: it has no entry for any day.
C26_NoExpenseGivesEmptyCharts ==
    (rendered.done /\ ~HasAnExpense) =>
        rendered.expenseData = <<>> /\ Len(rendered.dailySpendingData) = 0

\* A month is displayed whose transactions are income only.
C26_Witness ==
    /\ rendered.done
    /\ Len(rendered.monthlyTransactions) >= 1
    /\ ~HasAnExpense
    /\ rendered.dailySpendingData = <<>>
    /\ rendered.expenseData = <<>>

\* some element of the array bears no id
SomeElementLacksAnId(array) ==
    \E i \in 1..Len(array) : IsNull(array[i]) \/ array[i].id = ""

\* C27: a legacy-format import (top-level JSON array) is accepted only if
\* every element of the array bears an id; an array in which some element
\* lacks an id is treated as a wrong-format file and adds nothing to the
\* repository.
C27_ArrayWithAnIdlessElementIsRejected ==
    [][(/\ Loaded
        /\ upload.file.shape = "array"
        /\ SomeElementLacksAnId(upload.file.transactions)) =>
          /\ alert' = CouldNotImportAlert
          /\ UNCHANGED <<transactions, lsTransactions>>]_vars

\* a day of the month after the displayed one
FollowingMonth == SetMonth(FirstDayOfMonth(currentDate), 1)

MonthIndex(d) == d[1] * 12 + d[2]

\* changeMonth has just run
MonthChanged == currentDate' # currentDate

\* the month displayed is the one next to the month that was displayed
MovedByOneMonth ==
    \/ MonthIndex(currentDate') = MonthIndex(currentDate) + 1
    \/ MonthIndex(currentDate') = MonthIndex(currentDate) - 1

\* C29: for every current reference date (any day of any month, including
\* the 29th to 31st), changeMonth(+1) moves the reference month to exactly the
\* next calendar month and changeMonth(-1) to exactly the previous one, so
\* that no month is skipped or repeated by navigation.
C29_ChangeMonthMovesByOneMonth == [][MonthChanged => MovedByOneMonth]_vars

\* the same for reference dates up to the 28th of their month
C29_UpToThe28thMovesByOneMonth ==
    [][MonthChanged /\ currentDate[3] <= 28 => MovedByOneMonth]_vars

\* reader.onload has just given addTransactions the records of a file
ImportedRecords ==
    /\ Loaded
    /\ Parses(upload.file)
    /\ Recognized(upload.file)
    /\ Len(TransactionsToImport(upload.file)) > 0
    /\ ~UpdaterThrows(TransactionsToImport(upload.file))

\* the collection is the one that stood when the read completed, with the
\* sanitized records of the file added, in memory and in the store
AddedToTheCurrentCollection ==
    /\ transactions' \in
           AddTransactionsUpdater(transactions, TransactionsToImport(upload.file))
    /\ lsTransactions' = Item(JsonStringify(transactions'))

\* C30: an import whose asynchronous file read completes after another
\* mutation of the same collection has happened in between does not lose that
\* mutation: the resulting collection, in memory and persisted, is the
\* collection as it stood when the read completed, unioned with the sanitized
\* imported records.
C30_ImportKeepsInterveningMutations ==
    [][ImportedRecords => AddedToTheCurrentCollection]_vars

\* the same for the reads that complete before anything else mutates the
\* collection
C30_ImportWithoutInterveningMutation ==
    [][ImportedRecords /\ upload.transactions = transactions =>
          AddedToTheCurrentCollection]_vars

====
